---- MODULE Spec2Model ----
(***************************************************************************)
(* A model of agentbrowser's element resolution (elements.py), the retry   *)
(* wrapper around it (actions.py) and the action replayer (agent.py,       *)
(* recorder.py).  The Playwright page is the environment: an ordered list  *)
(* of elements that may change at every await of the code.                 *)
(***************************************************************************)
EXTENDS Integers, Sequences, FiniteSets, TLC

(* ------------------------------ bounds -------------------------------- *)

\* longest page (number of elements) the environment presents
MaxPageLen == 2

\* number of DOM changes the environment makes during one run
MaxMutations == 1

\* longest stored recording
MaxSeqLen == 3

\* deepest nesting of replay calls (a stored entry may name replay itself)
MaxDepth == 2

\* largest max_retries a RetryConfig is built with
MaxRetries == 3

\* most verbs the user calls within one recording session
MaxCalls == 2

\* latest time on the recorder's clock
MaxTime == 1

\* most elements of one role on a crowded page
MaxPerRole == 6

\* most pairs given to fill_form
MaxFields == 2

\* largest max_items given to page_summary besides its default
MaxItems == 2

\* most elements of one role on a page that is summarized
MaxElems == 2

\* most same-origin links with a short text on a page that is summarized
MaxLinks == 11

(* ---------------------------- the page -------------------------------- *)

\* An element text: `ws` leading whitespace characters, then `len` other
\* characters; `id` names the content.
NoText == [id |-> "", ws |-> 0, len |-> 0]

\* The elements a page is built from.  `role` is the role the driver sees,
\* given by a role attribute or implied by the tag (a <button> is a button,
\* an <input type="submit"> too); `text` is what inner_text() returns; `m`
\* is the set of lookup kinds under which the driver reports the element for
\* the query of the run.  The first element is <button>Submit</button>, the
\* last one <input type="submit" value="Submit">.
PageElements ==
  <<
    [tag |-> "button", role |-> "button",   text |-> [id |-> "Submit",     ws |-> 0, len |-> 6],   m |-> {"name", "text"}],
    [tag |-> "a",      role |-> "link",     text |-> [id |-> "Submit all", ws |-> 1, len |-> 10],  m |-> {"name", "text", "selector"}],
    [tag |-> "input",  role |-> "textbox",  text |-> [id |-> "typed",      ws |-> 0, len |-> 5],   m |-> {"label", "selector", "attr"}],
    [tag |-> "input",  role |-> "textbox",  text |-> NoText,                                      m |-> {"placeholder"}],
    [tag |-> "div",    role |-> "none",     text |-> [id |-> "Long",       ws |-> 0, len |-> 120], m |-> {"text", "attr"}],
    [tag |-> "button", role |-> "button",   text |-> [id |-> "Cancel",     ws |-> 0, len |-> 6],   m |-> {}],
    [tag |-> "li",     role |-> "menuitem", text |-> [id |-> "Submit",     ws |-> 0, len |-> 6],   m |-> {"name"}],
    [tag |-> "input",  role |-> "button",   text |-> NoText,                                      m |-> {"name", "text"}]
  >>

\* Elements of a crowded page that no lookup reports for the query of the
\* run: a link, an editable <div role="textbox">, a menu item and an icon
\* button without text.
CrowdElements ==
  <<
    [tag |-> "a",      role |-> "link",     text |-> [id |-> "Home", ws |-> 0, len |-> 4], m |-> {}],
    [tag |-> "div",    role |-> "textbox",  text |-> [id |-> "note", ws |-> 1, len |-> 4], m |-> {}],
    [tag |-> "li",     role |-> "menuitem", text |-> [id |-> "File", ws |-> 0, len |-> 4], m |-> {}],
    [tag |-> "button", role |-> "button",   text |-> NoText,                               m |-> {}]
  >>

Catalog == PageElements \o CrowdElements

ElemIds == 1..Len(PageElements)

RECURSIVE SeqsUpTo(_, _)
SeqsUpTo(S, n) ==
  IF n = 0 THEN {<< >>}
  ELSE LET shorter == SeqsUpTo(S, n - 1)
       IN  shorter \cup {Append(s, x) : s \in shorter, x \in S}

\* every page the environment can present, in driver order
Pages == SeqsUpTo(ElemIds, MaxPageLen)

\* an element of the role that no lookup reports, with or without text
Unmatched(role, named) ==
  CHOOSE e \in 1..Len(Catalog) :
    /\ Catalog[e].m = {} /\ Catalog[e].role = role
    /\ (Catalog[e].text.len > 0) = named

Rep(e, n) == [i \in 1..n |-> e]

\* crowded pages without a match for the query: icon buttons first, then so
\* many named buttons, links, textboxes and menu items
CrowdPages ==
  {Rep(Unmatched("button", FALSE), icons) \o Rep(Unmatched("button", TRUE), nb)
     \o Rep(Unmatched("link", TRUE), nl) \o Rep(Unmatched("textbox", TRUE), nt)
     \o Rep(Unmatched("menuitem", TRUE), nm) :
       icons \in 0..1, nb \in 0..MaxPerRole, nl \in 0..MaxPerRole,
       nt \in 0..MaxPerRole, nm \in 0..MaxPerRole}

(* ---------------------------- queries --------------------------------- *)

NoQuery == << >>

\* A query is a sequence of characters.
Queries ==
  { <<"o", "k">>,
    <<"S", "u", "b", "m", "i", "t">>,
    <<"#", "o", "k">>,
    <<"o", "\"", "k">>,
    <<"[", "o">>,
    <<"a", " ", ">", " ", "b">>,
    <<"/", "/", "a">> }

StartsWith(q, p) ==
  /\ Len(q) >= Len(p)
  /\ SubSeq(q, 1, Len(p)) = p

Contains(q, p) ==
  \E i \in 1..Len(q) : i + Len(p) - 1 <= Len(q) /\ SubSeq(q, i, i + Len(p) - 1) = p

_looks_like_selector(q) ==
  \/ StartsWith(q, <<"/", "/">>)
  \/ StartsWith(q, <<"x", "p", "a", "t", "h", "=">>)
  \/ (Len(q) > 0 /\ q[1] \in {"#", ".", "["})
  \/ Contains(q, <<":", ":">>)
  \/ Contains(q, <<" ", ">", " ">>)
  \/ Contains(q, <<" ", "~", " ">>)

\* The selector text of strategy 6: the query is pasted between the quotes
\* without escaping.
AttrSelector(q) ==
  <<"[", "title", "=", "\"">> \o q \o <<"\"", " i", "]", ",", " ", "[", "aria-label", "=", "\"">> \o q \o <<"\"", " i", "]">>

\* The driver's selector parser, as far as brackets and quoted strings go:
\* a quoted string lives inside [...], and after its closing quote only a
\* flag or the closing bracket may follow.
RECURSIVE SelectorScan(_, _, _)
SelectorScan(sel, i, st) ==
  IF i > Len(sel) THEN st = "top"
  ELSE LET c == sel[i] IN
       CASE st = "top" ->
              IF c = "[" THEN SelectorScan(sel, i + 1, "attr")
              ELSE IF c \in {"]", "\""} THEN FALSE
              ELSE SelectorScan(sel, i + 1, "top")
         [] st = "attr" ->
              IF c = "\"" THEN SelectorScan(sel, i + 1, "str")
              ELSE IF c = "]" THEN SelectorScan(sel, i + 1, "top")
              ELSE IF c = "[" THEN FALSE
              ELSE SelectorScan(sel, i + 1, "attr")
         [] st = "str" ->
              IF c = "\"" THEN SelectorScan(sel, i + 1, "after")
              ELSE SelectorScan(sel, i + 1, "str")
         [] OTHER ->
              IF c = "]" THEN SelectorScan(sel, i + 1, "top")
              ELSE IF c = " i" THEN SelectorScan(sel, i + 1, "after")
              ELSE FALSE

SelectorWellFormed(sel) == SelectorScan(sel, 1, "top")

(* --------------------------- strategies -------------------------------- *)

RoleOrder == <<"button", "link", "menuitem", "tab", "option">>

NumStrategiesMut == Len(<<"selector">>)

\* The strategies of find_element in the order of its code: 1 selector,
\* 2..6 the roles of RoleOrder, 7 label, 8 placeholder, 9 text, 10 attribute.
NumStrategies == 1 + Len(RoleOrder) + 4

Strategies == 1..NumStrategies

Kind(s) ==
  CASE s = 1 -> "selector"
    [] s \in 2..6 -> "role"
    [] s = 7 -> "label"
    [] s = 8 -> "placeholder"
    [] s = 9 -> "text"
    [] OTHER -> "attr"

RoleOf(s) == IF s \in 2..6 THEN RoleOrder[s - 1] ELSE "none"

\* the selector text the driver has to parse for strategy s (the regular
\* expressions of strategies 2..5 are escaped and always parse)
DriverSelector(s, q) ==
  CASE s = 1 -> q
    [] s = 10 -> AttrSelector(q)
    [] OTHER -> << >>

ElemMatches(s, e) ==
  IF Kind(s) = "role"
  THEN Catalog[e].role = RoleOf(s) /\ "name" \in Catalog[e].m
  ELSE Kind(s) \in Catalog[e].m

\* the locator of strategy s resolved against page p, in driver order
MatchList(s, p) == SelectSeq(p, LAMBDA e : ElemMatches(s, e))

FirstMut(ms) == ms[Len(ms)]

\* loc.first
First(ms) == ms[1]

HasMatchMut(count) == count >= 0

\* the guard `await loc.count() > 0`
HasMatch(count) == count > 0

FirstStrategyMut(q) == 1

\* the strategy find_element starts with
FirstStrategy(q) == IF _looks_like_selector(q) THEN 1 ELSE 2

InputLike == {"input", "select", "textarea"}

\* does the branch of strategy s read inner_text for an element of this tag
ReadsText(s, tag) ==
  CASE Kind(s) \in {"selector", "attr"} -> tag \notin InputLike
    [] Kind(s) \in {"role", "text"} -> TRUE
    [] OTHER -> FALSE

\* `tag or <default>` of each branch
DefaultTag(s) ==
  CASE Kind(s) = "role" -> RoleOf(s)
    [] Kind(s) \in {"label", "placeholder"} -> "input"
    [] OTHER -> "unknown"

TagOr(t, s) == IF t = "" THEN DefaultTag(s) ELSE t

Min(a, b) == IF a <= b THEN a ELSE b

\* str.strip(): the leading whitespace goes
Strip(t) == [t EXCEPT !.ws = 0]

\* t[:k]
Prefix(t, k) ==
  IF t.ws >= k THEN [id |-> t.id, ws |-> k, len |-> 0]
  ELSE [id |-> t.id, ws |-> t.ws, len |-> Min(t.len, k - t.ws)]

TextLimit == 100

SuggestionTextLimit == 50

\* (await first.inner_text()).strip()[:100]
DisplayText(e) == Prefix(Strip(Catalog[e].text), TextLimit)

FoundElementMut(s, t, text, q) ==
  [locator |-> s, tag |-> t, text |-> text, role |-> "none",
   label |-> IF Kind(s) \in {"label", "placeholder"} THEN q ELSE NoQuery]

\* FoundElement; locator is the lazy `first` of the strategy's locator
FoundElement(s, tag, text, q) ==
  [locator |-> s,
   tag     |-> tag,
   text    |-> text,
   role    |-> RoleOf(s),
   label   |-> IF Kind(s) \in {"label", "placeholder"} THEN q ELSE NoQuery]

NoElement == [locator |-> 0, tag |-> "", text |-> NoText, role |-> "none", label |-> NoQuery]

(* ----------------------------- errors ---------------------------------- *)

MessageAvailable == 10

\* the message of ElementNotFoundError, f"Element '{query}' not found." and,
\* when there are suggestions, the first ten of them: kept as its parts
ErrorMessage(q, available) ==
  [text |-> "Element '{query}' not found.", query |-> q,
   shown |-> SubSeq(available, 1, Min(Len(available), MessageAvailable))]

NoMessage == [text |-> "", query |-> << >>, shown |-> << >>]

ElementNotFoundError(q, available) ==
  [kind |-> "NotFound", query |-> q, available |-> available, msg |-> ErrorMessage(q, available)]

\* an error raised by the driver: "SelectorError" (the selector does not
\* parse), "DriverTimeout" (the locator resolved to no element), "PageClosed"
DriverError(kind) == [kind |-> kind, query |-> NoQuery, available |-> << >>, msg |-> NoMessage]

\* `raise None`
TypeError == [kind |-> "TypeError", query |-> NoQuery, available |-> << >>, msg |-> NoMessage]

NoErr == [kind |-> "none", query |-> NoQuery, available |-> << >>, msg |-> NoMessage]

(* ------------------------- suggestions --------------------------------- *)

AvailableRoles == <<"button", "link", "textbox", "menuitem">>

AvailableLimit == 15

AvailablePerRole == 5

\* page.get_by_role(role)
ByRole(role, p) == SelectSeq(p, LAMBDA e : Catalog[e].role = role)

RoleItemsMut(role, p) ==
  LET loc   == ByRole(role, p)
      names == [i \in 1..Len(loc) |-> Prefix(Strip(Catalog[loc[i]].text), SuggestionTextLimit)]
      kept  == SelectSeq(names, LAMBDA nm : nm.len > 0)
  IN  [i \in 1..Len(kept) |-> [role |-> role, name |-> kept[i]]]

\* the items one role adds: the first 5 elements of the role whose stripped
\* text, cut to 50 characters, is not empty
RoleItems(role, p) ==
  LET loc   == ByRole(role, p)
      n     == Min(Len(loc), AvailablePerRole)
      names == [i \in 1..n |-> Prefix(Strip(Catalog[loc[i]].text), SuggestionTextLimit)]
      kept  == SelectSeq(names, LAMBDA nm : nm.len > 0)
  IN  [i \in 1..Len(kept) |-> [role |-> role, name |-> kept[i]]]

\* items[:limit]
Limit(items, limit) == SubSeq(items, 1, Min(Len(items), limit))

(* ------------------------------ state ---------------------------------- *)

VARIABLES
  query,        \* the caller's query
  page,         \* the elements of the page, in driver order
  mutations,    \* DOM changes made so far
  max_retries,  \* RetryConfig.max_retries
  fpc,          \* find_element: "idle", the await it is at, "returned", "raised"
  strat,        \* find_element: the strategy it is at
  tag,          \* find_element: local `tag`
  items,        \* _get_available_interactive: local `items`
  availIdx,     \* _get_available_interactive: position in its role loop
  result,       \* the FoundElement find_element returned
  err,          \* the error find_element raised
  queried,      \* the strategies whose locator this call had the driver count
  reads,        \* what the driver reported to this call: the count that passed
                \* the guard, the elements tag and text were read from
  callMutated,  \* the page changed during this call of find_element
  rpc,          \* _with_retry: "loop", "call", "sleep", "done"
  attempt,      \* _with_retry: loop variable
  last_err,     \* _with_retry: local `last_err`
  outcome,      \* what _with_retry returned or raised
  attempts,     \* calls of find_element made by _with_retry
  delays,       \* asyncio.sleep calls completed by _with_retry
  caught        \* the errors the except clause of _with_retry caught, in order

findVars == <<fpc, strat, tag, items, availIdx, result, err, queried, reads, callMutated>>

retryVars == <<rpc, attempt, last_err, outcome, attempts, delays, caught>>

resolveVars == <<query, page, mutations, max_retries, findVars, retryVars>>

VARIABLES
  started,      \* BrowserAgent._started
  recording,    \* ActionRecorder._recording
  actions,      \* ActionRecorder._actions
  stored,       \* the recording in storage, as ActionRecorder.load returns it
  rstack,       \* the frames of replay on the call stack, outermost first
  calls,        \* the calls replay has made, in the order it made them
  routcome,     \* how the outermost replay ended
  now,          \* time.time()
  start_time,   \* ActionRecorder._start_time
  stop_result,  \* what the last stop_recording() since the last start returned
  invoked,      \* the methods called on the agent, by the user or by replay,
                \* in the recording session that started last and while it
                \* was active: name, keyword arguments, and by how many
                \* entries the buffer grew
  session       \* the last start_recording(): its time, the length of the
                \* buffer and the session state it found, and a bit that
                \* every start_recording() flips

\* the recorder's clock and origin, and the record of how it was used
sessionVars == <<now, start_time, stop_result, invoked, session>>

agentVars == <<started, recording, actions, stored, rstack, calls, routcome, sessionVars>>

VARIABLES
  verb,         \* the verb of actions.py being run: name, flags, stealth
  vpc,          \* the verb: "none", "resolve", "act", "pause", "returned", "raised"
  vdone,        \* the driver actions of the verb that completed, in order
  vslept,       \* random_delay slept
  verr,         \* the error the verb raised
  vfault,       \* the error the driver raised under a driver action
  vacted        \* the elements the driver actions of the verb acted on, in order

verbVars == <<verb, vpc, vdone, vslept, verr, vfault, vacted>>

VARIABLES
  field_values, \* fill_form: the label/value pairs, in the order of the dict
  fcall,        \* fill_form: submit and stealth.realistic_typing
  present,      \* the labels find_element resolves on the page at this moment
  late,         \* the labels that the page has yet to render
  checked,      \* the checked state of the checkbox of the form
  checked0,     \* its checked state when fill_form was called
  hasForm,      \* the page holds a <form>
  ppc,          \* fill_form: "none", the await it is at, "returned", "raised"
  fidx,         \* fill_form: position in the loop over the pairs
  pending,      \* the driver actions still to make for the pair at hand
  fops,         \* the driver actions fill_form completed, in order
  ferr,         \* the error fill_form raised
  finds,        \* the queries fill_form called find_element with, in order
  presses,      \* completed page.keyboard.press("Enter")
  fcaught       \* the errors the except clause of the submit step caught

formVars == <<field_values, fcall, present, late, checked, checked0, hasForm,
              ppc, fidx, pending, fops, ferr, finds, presses, fcaught>>

VARIABLES
  max_items,    \* page_summary: max_items
  spage,        \* the page page_summary reads
  spc,          \* page_summary: "none", the section it is at, "returned"
  srole,        \* page_summary: position in the loop over the roles
  lines,        \* page_summary: local `lines`
  nav_links,    \* page_summary: the links joined on the navigation line
  scall,        \* the call of page_summary that runs: the first, the second
  prev,         \* the lines of the summary the first call returned
  schanged      \* the page changed between the two calls

summaryVars == <<max_items, spage, spc, srole, lines, nav_links, scall, prev, schanged>>

VARIABLES
  lastop,       \* the latest operation the user called on the agent, and its outcome
  ncalls,       \* the operations the user called so far
  closed        \* close() completed and start() was not called since

lifeVars == <<lastop, ncalls, closed>>

\* the state of the modules that run on top of the resolver
extVars == <<verbVars, formVars, summaryVars, lifeVars>>

vars == <<resolveVars, agentVars, extVars>>

NoReads == [count |-> 0, tagFrom |-> 0, textFrom |-> 0]

\* no operation was called yet
NoOp == [action |-> "", started |-> FALSE, recording |-> FALSE, raised |-> "",
         entered |-> FALSE, appended |-> 0]

LifeIdle == lastop = NoOp /\ ncalls = 0 /\ closed = FALSE

NoOutcome == [kind |-> "none", el |-> NoElement, err |-> NoErr]

\* RetryConfig.max_retries when none is given
DefaultMaxRetries == 3

\* RetryConfig(max_retries=n): a pydantic model with a bare `int` field
RetryConfigAccepts(n) == n \in Int

FindIdle ==
  /\ fpc = "idle" /\ strat = 0 /\ tag = "" /\ items = << >> /\ availIdx = 0
  /\ result = NoElement /\ err = NoErr /\ queried = << >>
  /\ reads = NoReads /\ callMutated = FALSE

\* _with_retry is about to run for query q on page p under RetryConfig(max_retries=n)
InitResolveAt(q, p, n) ==
  /\ query = q
  /\ page = p
  /\ mutations = 0
  /\ max_retries = n
  /\ FindIdle
  /\ rpc = "loop" /\ attempt = 0 /\ last_err = NoErr /\ outcome = NoOutcome
  /\ attempts = 0 /\ delays = 0 /\ caught = << >>

InitResolve ==
  \E q \in Queries, p \in Pages, n \in {n \in 0..MaxRetries : RetryConfigAccepts(n)} :
    InitResolveAt(q, p, n)

(* --------------------------- find_element ------------------------------ *)

\* the awaits of find_element: the page may change while it is at one
FindSuspended == fpc \in {"count", "eval", "text", "avail"}

\* find_element is entered: nothing is awaited before the first strategy
FindEnter ==
  /\ fpc' = "count"
  /\ strat' = FirstStrategy(query)
  /\ tag' = "" /\ items' = << >> /\ availIdx' = 0
  /\ result' = NoElement /\ err' = NoErr
  /\ queried' = << >> /\ reads' = NoReads /\ callMutated' = FALSE

FindRaise(e) ==
  /\ fpc' = "raised"
  /\ err' = e
  /\ UNCHANGED <<strat, tag, items, availIdx, result, queried, reads, callMutated>>

\* `await loc.count()` of the strategy at hand and the guard on it
FindCount ==
  /\ fpc = "count"
  /\ IF ~SelectorWellFormed(DriverSelector(strat, query))
     THEN FindRaise(DriverError("SelectorError"))
     ELSE LET c == Len(MatchList(strat, page)) IN
          /\ queried' = Append(queried, strat)
          /\ IF HasMatch(c)
             THEN /\ fpc' = "eval"
                  /\ reads' = [reads EXCEPT !.count = c]
                  /\ UNCHANGED <<strat, availIdx>>
             ELSE IF strat < NumStrategies
             THEN /\ strat' = strat + 1
                  /\ UNCHANGED <<fpc, reads, availIdx>>
             ELSE /\ fpc' = "avail"
                  /\ availIdx' = 1
                  /\ UNCHANGED <<strat, reads>>
          /\ UNCHANGED <<tag, items, result, err, callMutated>>
  /\ UNCHANGED <<query, page, mutations, max_retries, retryVars>>
  /\ UNCHANGED <<agentVars, extVars>>

\* `await first.evaluate("el => el.tagName.toLowerCase()") or <default>`:
\* the driver resolves `first` against the page as it is now, and times out
\* when nothing matches any more
FindEval ==
  /\ fpc = "eval"
  /\ LET ms == MatchList(strat, page) IN
     IF ms = << >>
     THEN FindRaise(DriverError("DriverTimeout"))
     ELSE LET e == First(ms)
              t == TagOr(Catalog[e].tag, strat) IN
          /\ tag' = t
          /\ reads' = [reads EXCEPT !.tagFrom = e]
          /\ IF ReadsText(strat, t)
             THEN fpc' = "text" /\ UNCHANGED result
             ELSE fpc' = "returned" /\ result' = FoundElement(strat, t, NoText, query)
          /\ UNCHANGED <<strat, items, availIdx, err, queried, callMutated>>
  /\ UNCHANGED <<query, page, mutations, max_retries, retryVars>>
  /\ UNCHANGED <<agentVars, extVars>>

\* `(await first.inner_text()).strip()[:100]` and the return
FindText ==
  /\ fpc = "text"
  /\ LET ms == MatchList(strat, page) IN
     IF ms = << >>
     THEN FindRaise(DriverError("DriverTimeout"))
     ELSE LET e == First(ms) IN
          /\ fpc' = "returned"
          /\ result' = FoundElement(strat, tag, DisplayText(e), query)
          /\ reads' = [reads EXCEPT !.textFrom = e]
          /\ UNCHANGED <<strat, tag, items, availIdx, err, queried, callMutated>>
  /\ UNCHANGED <<query, page, mutations, max_retries, retryVars>>
  /\ UNCHANGED <<agentVars, extVars>>

\* one round of the role loop of _get_available_interactive, and after the
\* last round (or the break) `raise ElementNotFoundError(query, available)`
FindAvail ==
  /\ fpc = "avail"
  /\ LET more == items \o RoleItems(AvailableRoles[availIdx], page) IN
     IF Len(more) >= AvailableLimit \/ availIdx = Len(AvailableRoles)
     THEN /\ fpc' = "raised"
          /\ err' = ElementNotFoundError(query, Limit(more, AvailableLimit))
          /\ items' = more
          /\ UNCHANGED availIdx
     ELSE /\ items' = more
          /\ availIdx' = availIdx + 1
          /\ UNCHANGED <<fpc, err>>
  /\ UNCHANGED <<strat, tag, result, queried, reads, callMutated>>
  /\ UNCHANGED <<query, page, mutations, max_retries, retryVars>>
  /\ UNCHANGED <<agentVars, extVars>>

\* the page is closed or crashes under the driver call being awaited
DriverFault ==
  /\ FindSuspended
  /\ FindRaise(DriverError("PageClosed"))
  /\ UNCHANGED <<query, page, mutations, max_retries, retryVars>>
  /\ UNCHANGED <<agentVars, extVars>>

(* ---------------------------- _with_retry ------------------------------ *)

RetryableMut(e) == TRUE

\* `except ElementNotFoundError as e`
Retryable(e) == e.kind = "NotFound"

ShouldSleepMut(a, n) == a < n - 2

\* `if attempt < config.max_retries - 1`
ShouldSleep(a, n) == a < n - 1

NextLastErrMut(last, e) == IF last = NoErr THEN e ELSE last

\* `last_err = e`
NextLastErr(last, e) == e

\* `raise last_err`: raising None is a TypeError
RaiseLast(last) == IF last = NoErr THEN TypeError ELSE last

\* `for attempt in range(config.max_retries)`: the next round calls
\* find_element, the end of the loop raises last_err
RetryLoop ==
  /\ rpc = "loop"
  /\ IF attempt < max_retries
     THEN /\ rpc' = "call"
          /\ attempts' = attempts + 1
          /\ FindEnter
          /\ UNCHANGED outcome
     ELSE /\ rpc' = "done"
          /\ outcome' = [kind |-> "raised", el |-> NoElement, err |-> RaiseLast(last_err)]
          /\ UNCHANGED <<attempts, findVars>>
  /\ UNCHANGED <<attempt, last_err, delays, caught>>
  /\ UNCHANGED <<query, page, mutations, max_retries>>
  /\ UNCHANGED <<agentVars, extVars>>

\* `return await find_element(page, query, config)`
RetryReturn ==
  /\ rpc = "call" /\ fpc = "returned"
  /\ rpc' = "done"
  /\ outcome' = [kind |-> "returned", el |-> result, err |-> NoErr]
  /\ fpc' = "idle"
  /\ UNCHANGED <<strat, tag, items, availIdx, result, err, queried, reads, callMutated>>
  /\ UNCHANGED <<attempt, last_err, attempts, delays, caught>>
  /\ UNCHANGED <<query, page, mutations, max_retries>>
  /\ UNCHANGED <<agentVars, extVars>>

\* the except clause: remember the error, sleep when a round remains
RetryCatch ==
  /\ rpc = "call" /\ fpc = "raised" /\ Retryable(err)
  /\ last_err' = NextLastErr(last_err, err)
  /\ caught' = Append(caught, err)
  /\ fpc' = "idle"
  /\ IF ShouldSleep(attempt, max_retries)
     THEN rpc' = "sleep" /\ UNCHANGED attempt
     ELSE rpc' = "loop" /\ attempt' = attempt + 1
  /\ UNCHANGED <<strat, tag, items, availIdx, result, err, queried, reads, callMutated>>
  /\ UNCHANGED <<outcome, attempts, delays>>
  /\ UNCHANGED <<query, page, mutations, max_retries>>
  /\ UNCHANGED <<agentVars, extVars>>

\* any other exception leaves _with_retry
RetryPropagate ==
  /\ rpc = "call" /\ fpc = "raised" /\ ~Retryable(err)
  /\ rpc' = "done"
  /\ outcome' = [kind |-> "raised", el |-> NoElement, err |-> err]
  /\ fpc' = "idle"
  /\ UNCHANGED <<strat, tag, items, availIdx, result, err, queried, reads, callMutated>>
  /\ UNCHANGED <<attempt, last_err, attempts, delays, caught>>
  /\ UNCHANGED <<query, page, mutations, max_retries>>
  /\ UNCHANGED <<agentVars, extVars>>

\* `await asyncio.sleep(config.retry_delay_ms / 1000.0)` is over
RetryWake ==
  /\ rpc = "sleep"
  /\ rpc' = "loop"
  /\ attempt' = attempt + 1
  /\ delays' = delays + 1
  /\ UNCHANGED <<last_err, outcome, attempts, caught>>
  /\ UNCHANGED <<query, page, mutations, max_retries, findVars>>
  /\ UNCHANGED <<agentVars, extVars>>

(* --------------------------- environment ------------------------------- *)

RemoveAt(p, i) == SubSeq(p, 1, i - 1) \o SubSeq(p, i + 1, Len(p))

\* one DOM change: an element goes, or one appears at the front or the end
Edits(p) ==
  {RemoveAt(p, i) : i \in 1..Len(p)}
    \cup (IF Len(p) < MaxPageLen
          THEN {<<e>> \o p : e \in ElemIds} \cup {Append(p, e) : e \in ElemIds}
          ELSE {})

\* the page changes while the code is suspended at an await
Mutate ==
  /\ FindSuspended \/ rpc = "sleep"
  /\ mutations < MaxMutations
  /\ page' \in Edits(page)
  /\ mutations' = mutations + 1
  /\ callMutated' = (callMutated \/ FindSuspended)
  /\ UNCHANGED <<fpc, strat, tag, items, availIdx, result, err, queried, reads>>
  /\ UNCHANGED <<query, max_retries, retryVars>>
  /\ UNCHANGED <<agentVars, extVars>>

(* ------------------------- the agent's names --------------------------- *)

\* the `async def` methods of BrowserAgent
CoroutineMethods ==
  {"start", "close", "__aenter__", "__aexit__", "get_title", "goto", "back",
   "forward", "refresh", "click", "type", "hover", "select", "scroll_down",
   "scroll_up", "scroll_to", "wait_for", "wait", "get_text", "get_links",
   "get_tables", "get_meta", "page_summary", "screenshot", "fill_form",
   "detect_forms", "save_profile", "load_profile", "replay", "press", "evaluate"}

\* the plain `def` methods of BrowserAgent
SyncMethods ==
  {"_ensure_started", "list_profiles", "start_recording", "stop_recording",
   "save_recording"}

\* the properties that call _ensure_started and return a value
GuardedProperties == {"page", "url"}

\* the instance attributes set by __init__
InstanceAttrs == {"_config", "_manager", "_storage", "_recorder", "_started"}

\* `getattr(self, name, None)`: what kind of object comes back.  The
\* property `title` raises AttributeError, which getattr turns into None;
\* `page` and `url` raise BrowserNotStartedError before start().
Getattr(name, isStarted) ==
  CASE name \in CoroutineMethods -> "coroutine"
    [] name \in SyncMethods -> "method"
    [] name \in GuardedProperties -> IF isStarted THEN "value" ELSE "raise"
    [] name \in InstanceAttrs -> "value"
    [] OTHER -> "none"

\* the verbs that call self._recorder.record
RecordingVerbs ==
  {"goto", "back", "forward", "refresh", "click", "type", "hover", "select",
   "scroll_down", "scroll_up", "scroll_to", "screenshot", "fill_form", "press"}

\* the methods whose first statement is self._ensure_started()
EnsuringMethods == (CoroutineMethods \cup {"_ensure_started"}) \ {"start", "close", "__aenter__", "__aexit__", "wait"}

\* the parameters a method must be given, and those it may be given
Required(name) ==
  CASE name \in {"goto"} -> {"url"}
    [] name \in {"click", "hover", "scroll_to"} -> {"query"}
    [] name = "type" -> {"query", "text"}
    [] name = "select" -> {"query", "value"}
    [] name \in {"wait_for"} -> {"text"}
    [] name = "wait" -> {"ms"}
    [] name = "press" -> {"key"}
    [] name = "fill_form" -> {"fields"}
    [] name = "evaluate" -> {"expression"}
    [] name \in {"replay", "save_profile", "load_profile", "save_recording"} -> {"name"}
    [] OTHER -> {}

Optional(name) ==
  CASE name = "goto" -> {"wait_until"}
    [] name \in {"click", "wait_for"} -> {"timeout_ms"}
    [] name = "type" -> {"clear", "submit"}
    [] name \in {"scroll_down", "scroll_up"} -> {"pixels"}
    [] name = "page_summary" -> {"max_items"}
    [] name = "screenshot" -> {"path", "full_page", "element"}
    [] name = "fill_form" -> {"submit"}
    [] name = "save_recording" -> {"description"}
    [] OTHER -> {}

\* keyword arguments are sets of <<name, value>> pairs
Keys(kwargs) == {kv[1] : kv \in kwargs}

\* does the call `method(**kwargs)` bind
Binds(name, kwargs) ==
  /\ Required(name) \subseteq Keys(kwargs)
  /\ Keys(kwargs) \subseteq Required(name) \cup Optional(name)

\* the keyword arguments a verb hands to self._recorder.record
RecordedKeys(name) ==
  CASE name = "goto" -> {"url"}
    [] name \in {"click", "hover", "scroll_to"} -> {"query"}
    [] name = "type" -> {"query", "text"}
    [] name = "select" -> {"query", "value"}
    [] name \in {"scroll_down", "scroll_up"} -> {"pixels"}
    [] name = "screenshot" -> {"path"}
    [] name = "fill_form" -> {"fields", "submit"}
    [] name = "press" -> {"key"}
    [] OTHER -> {}

\* the values of the parameters a call leaves out
Defaults(name) ==
  CASE name = "goto" -> {<<"wait_until", "domcontentloaded">>}
    [] name \in {"click", "wait_for"} -> {<<"timeout_ms", "None">>}
    [] name = "type" -> {<<"clear", "True">>, <<"submit", "False">>}
    [] name \in {"scroll_down", "scroll_up"} -> {<<"pixels", "500">>}
    [] name = "page_summary" -> {<<"max_items", "20">>}
    [] name = "screenshot" -> {<<"path", "None">>, <<"full_page", "False">>, <<"element", "None">>}
    [] name = "fill_form" -> {<<"submit", "False">>}
    [] name = "save_recording" -> {<<"description", "">>}
    [] OTHER -> {}

\* the values the parameters of `name(**kwargs)` are bound to
Effective(name, kwargs) ==
  kwargs \cup {d \in Defaults(name) : d[1] \notin Keys(kwargs)}

\* RecordedAction(action=name, args=<what the verb hands to record>,
\* timestamp=ts): the verb hands over the parameters of RecordedKeys
RecordedAction(name, kwargs, ts) ==
  [action |-> name,
   args |-> {kv \in Effective(name, kwargs) : kv[1] \in RecordedKeys(name)},
   timestamp |-> ts]

RecordMut(buf, isRecording, name, kwargs, ts) ==
  Append(buf, RecordedAction(name, kwargs, ts))

\* ActionRecorder.record
Record(buf, isRecording, name, kwargs, ts) ==
  IF isRecording THEN Append(buf, RecordedAction(name, kwargs, ts)) ELSE buf

\* RecordedAction.to_dict, and json.dumps / json.loads of the dict: the
\* arguments are strings, numbers, booleans, None and string mappings,
\* which JSON gives back as they were
to_dict(a) == [action |-> a.action, args |-> a.args, timestamp |-> a.timestamp]

\* RecordedAction.from_dict
from_dict(d) == [action |-> d.action, args |-> d.args, timestamp |-> d.timestamp]

\* ActionRecorder.save followed by ActionRecorder.load
SaveLoad(buf) == [i \in 1..Len(buf) |-> from_dict(to_dict(buf[i]))]

\* The entries a stored recording is built from.
EntryCatalog ==
  <<
    [action |-> "goto",            args |-> {<<"url", "A">>},                        timestamp |-> 0],
    [action |-> "type",            args |-> {<<"query", "Email">>, <<"text", "x">>}, timestamp |-> 0],
    [action |-> "navigate",        args |-> {<<"url", "A">>},                        timestamp |-> 0],
    [action |-> "close",           args |-> {},                                      timestamp |-> 0],
    [action |-> "start_recording", args |-> {},                                      timestamp |-> 0],
    [action |-> "url",             args |-> {},                                      timestamp |-> 0],
    [action |-> "replay",          args |-> {<<"name", "r">>},                       timestamp |-> 0]
  >>

Recordings == SeqsUpTo({EntryCatalog[i] : i \in 1..Len(EntryCatalog)}, MaxSeqLen)

(* ------------------------------ replay --------------------------------- *)

NoOutcomeR == [kind |-> "none", err |-> "", by |-> ""]

Raised(kind, by) == [kind |-> "raised", err |-> kind, by |-> by]

NoStop == [set |-> FALSE, value |-> << >>]

NoSession == [at |-> 0, dropped |-> 0, was |-> FALSE, flip |-> FALSE]

\* a new BrowserAgent, with recording rec in its storage
InitAgentAt(rec) ==
  /\ started = FALSE
  /\ recording = FALSE
  /\ actions = << >>
  /\ stored = rec
  /\ rstack = << >>
  /\ calls = << >>
  /\ routcome = NoOutcomeR
  /\ now = 0
  /\ start_time = 0
  /\ stop_result = NoStop
  /\ invoked = << >>
  /\ session = NoSession

InitAgent == \E rec \in Recordings : InitAgentAt(rec)

\* nothing of the agent is running and replay has not been called yet
AgentIdle == rstack = << >> /\ routcome = NoOutcomeR

Top == rstack[Len(rstack)]

\* the entry the innermost frame is at
Current == stored[Top.idx]

\* where the innermost frame is at: the loop positions of all frames
Path == [d \in 1..Len(rstack) |-> rstack[d].idx]

SetTop(st, f) == [st EXCEPT ![Len(st)] = f]

\* `for recorded in actions`: on to the next entry
Advance(st) == SetTop(st, [idx |-> st[Len(st)].idx + 1, awaiting |-> FALSE])

AwaitsMut(kind) == FALSE

\* `if asyncio.iscoroutinefunction(method): await method(**recorded.args)`
Awaits(kind) == kind = "coroutine"

\* `**recorded.args`
KwArgs(args) == args

\* the error is swallowed and the loop goes on
AbortMut(kind, by) ==
  /\ rstack' = Advance(rstack)
  /\ UNCHANGED routcome
  /\ calls' = [k \in 1..Len(calls) |->
                 IF calls[k].status = "running" /\ calls[k].path = Path
                 THEN [calls[k] EXCEPT !.status = "failed"] ELSE calls[k]]

\* an exception leaves every frame of replay; the calls in progress end
Abort(kind, by) ==
  /\ rstack' = << >>
  /\ routcome' = Raised(kind, by)
  /\ calls' = [k \in 1..Len(calls) |->
                 IF calls[k].status = "running" THEN [calls[k] EXCEPT !.status = "failed"] ELSE calls[k]]

NewBufferMut(buf) == buf

\* `self._actions = []`
NewBuffer(buf) == << >>

\* ActionRecorder.start
RecorderStart ==
  /\ recording' = TRUE
  /\ actions' = NewBuffer(actions)
  /\ start_time' = now
  /\ stop_result' = NoStop
  /\ invoked' = << >>
  /\ session' = [at |-> now, dropped |-> Len(actions), was |-> recording, flip |-> ~session.flip]

\* a method was called with these arguments and the buffer grew by `grown`
Invocation(name, kw, grown) ==
  [action |-> name, kwargs |-> kw, appended |-> grown]

VerbEnterMut(name, kw) == UNCHANGED <<actions, invoked>>

\* a method of the agent up to its first await, past _ensure_started: the
\* verbs of RecordingVerbs call self._recorder.record
VerbEnter(name, kw) ==
  LET buf == IF name \in RecordingVerbs
             THEN Record(actions, recording, name, kw, now - start_time)
             ELSE actions IN
  /\ actions' = buf
  /\ invoked' = IF recording
                THEN Append(invoked, Invocation(name, kw, Len(buf) - Len(actions)))
                ELSE invoked

\* BrowserAgent.start()
AgentStart ==
  /\ AgentIdle /\ ~started
  /\ started' = TRUE
  /\ UNCHANGED <<recording, actions, stored, rstack, calls, routcome, sessionVars>>
  /\ UNCHANGED <<resolveVars, extVars>>

\* BrowserAgent.start_recording(), called by the user: ActionRecorder.start
AgentStartRecording ==
  /\ AgentIdle
  /\ RecorderStart
  /\ UNCHANGED <<started, stored, rstack, calls, routcome, now>>
  /\ UNCHANGED <<resolveVars, extVars>>

\* BrowserAgent.stop_recording(), called by the user: ActionRecorder.stop
\* returns a copy of the buffer and leaves the buffer as it is
AgentStopRecording ==
  /\ AgentIdle
  /\ recording' = FALSE
  /\ stop_result' = [set |-> TRUE, value |-> actions]
  /\ UNCHANGED <<started, actions, stored, rstack, calls, routcome, now, start_time, invoked, session>>
  /\ UNCHANGED <<resolveVars, extVars>>

\* BrowserAgent.save_recording("r"), called by the user, and what
\* ActionRecorder.load("r") returns from then on
AgentSaveRecording ==
  /\ AgentIdle
  /\ stored' = SaveLoad(actions)
  /\ UNCHANGED <<started, recording, actions, rstack, calls, routcome, sessionVars>>
  /\ UNCHANGED <<resolveVars, extVars>>

\* The calls of verbs the user makes.
Invocations ==
  <<
    [action |-> "goto",        kwargs |-> {<<"url", "A">>}],
    [action |-> "type",        kwargs |-> {<<"query", "Email">>, <<"text", "x">>}],
    [action |-> "type",        kwargs |-> {<<"query", "Email">>, <<"text", "x">>, <<"submit", "True">>}],
    [action |-> "wait_for",    kwargs |-> {<<"text", "Done">>}],
    [action |-> "screenshot",  kwargs |-> {<<"full_page", "True">>}],
    [action |-> "scroll_down", kwargs |-> {}]
  >>

\* the user calls a verb: up to its first await, the verb checks that the
\* agent is started (BrowserNotStartedError otherwise) and records itself
AgentVerb ==
  /\ AgentIdle
  /\ Len(invoked) < MaxCalls
  /\ \E c \in 1..Len(Invocations) :
       LET name == Invocations[c].action
           kw   == Invocations[c].kwargs IN
       /\ Binds(name, kw)
       /\ IF name \in EnsuringMethods /\ ~started
          THEN UNCHANGED <<actions, invoked>>
          ELSE VerbEnter(name, kw)
  /\ UNCHANGED <<started, recording, stored, rstack, calls, routcome, now, start_time, stop_result, session>>
  /\ UNCHANGED <<resolveVars, extVars>>

\* BrowserAgent.close(): the storage and the manager are closed, then
\* `self._started = False`; BrowserManager.close swallows what the driver
\* raises, so close() reaches its last statement
AgentClose ==
  /\ AgentIdle
  /\ started' = FALSE
  /\ closed' = TRUE
  /\ UNCHANGED <<recording, actions, stored, rstack, calls, routcome, sessionVars>>
  /\ UNCHANGED <<lastop, ncalls>>
  /\ UNCHANGED <<resolveVars, verbVars, formVars, summaryVars>>

\* BrowserAgent.start() on an agent that was closed
AgentRestart ==
  /\ AgentIdle /\ ~started /\ closed
  /\ started' = TRUE
  /\ closed' = FALSE
  /\ UNCHANGED <<recording, actions, stored, rstack, calls, routcome, sessionVars>>
  /\ UNCHANGED <<lastop, ncalls>>
  /\ UNCHANGED <<resolveVars, verbVars, formVars, summaryVars>>

\* the operations the user calls on the agent besides the lifecycle
\* methods and replay: the methods and the properties `page` and `url`
Operations ==
  ((CoroutineMethods \cup {"_ensure_started"}) \ {"start", "close", "__aenter__", "__aexit__", "replay"})
    \cup GuardedProperties

\* a call of the operation that binds: each required parameter is given
CallOf(name) == {<<k, "A">> : k \in Required(name)}

EnsuresMut(name) == FALSE

\* `self._ensure_started()` is the first statement of the method, or of
\* the property `page` that `url` reads
Ensures(name) == name \in EnsuringMethods \cup GuardedProperties

\* how the body of the operation ends once it is past _ensure_started: ""
\* when it returns.  goto wraps what the driver raises in NavigationError,
\* wait_for raises TimeoutError, a verb that resolves a query raises
\* ElementNotFoundError, and what the driver raises leaves the others as
\* it is; the properties and _ensure_started make no driver call
Endings(name) ==
  CASE name \in GuardedProperties \cup {"_ensure_started"} -> {""}
    [] name = "goto" -> {"", "NavigationError"}
    [] name = "wait_for" -> {"", "TimeoutError"}
    [] name = "wait" -> {""}
    [] name \in {"click", "type", "hover", "select", "scroll_to", "fill_form"} ->
         {"", "ElementNotFoundError", "DriverError"}
    [] OTHER -> {"", "DriverError"}

\* the user calls an operation: _ensure_started raises before anything
\* else is done; past it a verb records itself, then does its driver work
AgentOp ==
  /\ AgentIdle
  /\ ncalls < MaxCalls
  /\ ncalls' = ncalls + 1
  /\ \E name \in Operations :
       IF Ensures(name) /\ ~started
       THEN /\ lastop' = [action |-> name, started |-> FALSE, recording |-> recording,
                          raised |-> "BrowserNotStartedError",
                          entered |-> FALSE, appended |-> 0]
            /\ UNCHANGED <<actions, invoked>>
       ELSE /\ actions' = IF name \in RecordingVerbs
                           THEN Record(actions, recording, name, CallOf(name), now - start_time)
                           ELSE actions
            /\ UNCHANGED invoked
            /\ \E end \in Endings(name) :
                 lastop' = [action |-> name, started |-> started, recording |-> recording,
                            raised |-> end, entered |-> TRUE,
                            appended |-> Len(actions') - Len(actions)]
  /\ UNCHANGED <<started, recording, stored, rstack, calls, routcome, now, start_time, stop_result, session>>
  /\ UNCHANGED closed
  /\ UNCHANGED <<resolveVars, verbVars, formVars, summaryVars>>

\* time passes
Tick ==
  /\ now < MaxTime
  /\ now' = now + 1
  /\ UNCHANGED <<started, recording, actions, stored, rstack, calls, routcome>>
  /\ UNCHANGED <<start_time, stop_result, invoked, session>>
  /\ UNCHANGED <<resolveVars, extVars>>

\* the user calls replay("r"): _ensure_started, then ActionRecorder.load
ReplayCall ==
  /\ AgentIdle
  /\ IF started
     THEN rstack' = <<[idx |-> 1, awaiting |-> FALSE]>> /\ UNCHANGED routcome
     ELSE routcome' = Raised("BrowserNotStartedError", "") /\ UNCHANGED rstack
  /\ UNCHANGED <<started, recording, actions, stored, calls, sessionVars>>
  /\ UNCHANGED <<resolveVars, extVars>>

\* the loop of the innermost replay is over: it returns to its caller,
\* which for a nested replay is the frame that awaited it
ReplayReturn ==
  /\ rstack # << >> /\ ~Top.awaiting /\ Top.idx > Len(stored)
  /\ IF Len(rstack) = 1
     THEN /\ rstack' = << >>
          /\ routcome' = [kind |-> "returned", err |-> "", by |-> ""]
          /\ UNCHANGED calls
     ELSE LET outer == SubSeq(rstack, 1, Len(rstack) - 1)
              k == CHOOSE j \in 1..Len(calls) :
                     calls[j].status = "running" /\ calls[j].path = [d \in 1..Len(outer) |-> outer[d].idx] IN
          /\ rstack' = Advance(outer)
          /\ calls' = [calls EXCEPT ![k].status = "done"]
          /\ UNCHANGED routcome
  /\ UNCHANGED <<started, recording, actions, stored, sessionVars>>
  /\ UNCHANGED <<resolveVars, extVars>>

\* one round of the loop up to its first await: getattr, the skip of None,
\* the call with the stored arguments and the part of the called method
\* that runs before its first await
ReplayDispatch ==
  /\ rstack # << >> /\ ~Top.awaiting /\ Top.idx <= Len(stored)
  /\ LET name == Current.action
         kw   == KwArgs(Current.args)
         kind == Getattr(name, started)
         call == [path |-> Path, action |-> name, kwargs |-> kw,
                  status |-> IF kind = "coroutine" THEN "running" ELSE "done"] IN
     CASE kind = "none" ->
            /\ rstack' = Advance(rstack)
            /\ UNCHANGED <<started, recording, actions, calls, routcome, sessionVars>>
       [] kind = "raise" ->
            /\ Abort("BrowserNotStartedError", name)
            /\ UNCHANGED <<started, recording, actions, sessionVars>>
       [] kind = "value" ->
            /\ Abort("TypeError", name)
            /\ UNCHANGED <<started, recording, actions, sessionVars>>
       [] OTHER ->
            IF ~Binds(name, kw)
            THEN /\ Abort("TypeError", name)
                 /\ UNCHANGED <<started, recording, actions, sessionVars>>
            ELSE IF name \in EnsuringMethods /\ ~started
            THEN /\ Abort("BrowserNotStartedError", name)
                 /\ UNCHANGED <<started, recording, actions, sessionVars>>
            ELSE IF name = "replay"
            THEN /\ Len(rstack) < MaxDepth
                 /\ rstack' = Append(SetTop(rstack, [Top EXCEPT !.awaiting = TRUE]),
                                     [idx |-> 1, awaiting |-> FALSE])
                 /\ calls' = Append(calls, call)
                 /\ UNCHANGED <<started, recording, actions, routcome, sessionVars>>
            ELSE IF name = "start_recording"
            THEN /\ RecorderStart
                 /\ calls' = Append(calls, call)
                 /\ rstack' = Advance(rstack)
                 /\ UNCHANGED <<started, routcome, now>>
            ELSE /\ VerbEnter(name, kw)
                 /\ calls' = Append(calls, call)
                 /\ rstack' = IF Awaits(kind)
                              THEN SetTop(rstack, [Top EXCEPT !.awaiting = TRUE])
                              ELSE Advance(rstack)
                 /\ UNCHANGED <<started, recording, routcome, now, start_time, stop_result, session>>
  /\ UNCHANGED stored
  /\ UNCHANGED <<resolveVars, extVars>>

\* the awaited method completes: close() ends with `self._started = False`
ReplayResume ==
  /\ rstack # << >> /\ Top.awaiting /\ Current.action # "replay"
  /\ LET k == CHOOSE j \in 1..Len(calls) : calls[j].status = "running" /\ calls[j].path = Path IN
     calls' = [calls EXCEPT ![k].status = "done"]
  /\ started' = IF Current.action = "close" THEN FALSE ELSE started
  /\ rstack' = Advance(rstack)
  /\ UNCHANGED <<recording, actions, stored, routcome, sessionVars>>
  /\ UNCHANGED <<resolveVars, extVars>>

\* the awaited method raises (an element is not found, the navigation
\* fails, the driver fails): the error leaves replay
ReplayFail ==
  /\ rstack # << >> /\ Top.awaiting /\ Current.action \in RecordingVerbs
  /\ \E kind \in {"ElementNotFoundError", "NavigationError", "DriverError"} :
       Abort(kind, Current.action)
  /\ UNCHANGED <<started, recording, actions, stored, sessionVars>>
  /\ UNCHANGED <<resolveVars, extVars>>

(* ------------------------------ verbs ---------------------------------- *)

NoVerb == [name |-> "", clear |-> FALSE, submit |-> FALSE, realistic |-> FALSE, enabled |-> FALSE]

\* click, hover, select_option and scroll_to_element under a StealthConfig
\* with delays on or off
PlainCalls ==
  {[name |-> n, clear |-> FALSE, submit |-> FALSE, realistic |-> FALSE, enabled |-> e] :
     n \in {"click", "hover", "select_option", "scroll_to_element"}, e \in BOOLEAN}

\* type_text: by default clear=True, submit=False and realistic typing;
\* also without clearing, with bulk fill and with the submit key
TypeCalls ==
  {[name |-> "type_text", clear |-> TRUE,  submit |-> FALSE, realistic |-> TRUE,  enabled |-> TRUE],
   [name |-> "type_text", clear |-> FALSE, submit |-> TRUE,  realistic |-> FALSE, enabled |-> FALSE],
   [name |-> "type_text", clear |-> TRUE,  submit |-> TRUE,  realistic |-> FALSE, enabled |-> TRUE]}

WaitCalls ==
  {[name |-> "wait_for_text", clear |-> FALSE, submit |-> FALSE, realistic |-> FALSE, enabled |-> FALSE]}

ResolvingVerbs == {"click", "type_text", "hover", "select_option", "scroll_to_element"}

Opt(b, op) == IF b THEN <<op>> ELSE << >>

\* the driver actions the body of the verb awaits after the resolution, in
\* the order of the body
DriverActions(v) ==
  CASE v.name = "click"             -> <<"click">>
    [] v.name = "hover"             -> <<"hover">>
    [] v.name = "select_option"     -> <<"select_option">>
    [] v.name = "scroll_to_element" -> <<"scroll_into_view_if_needed">>
    [] v.name = "type_text"         ->
         Opt(v.clear, "clear")
           \o (IF v.realistic THEN <<"press_sequentially">> ELSE <<"fill">>)
           \o Opt(v.submit, "press")
    [] v.name = "wait_for_text"     -> <<"wait_for">>
    [] OTHER                        -> << >>

\* exceptions.TimeoutError(operation, timeout_ms)
TimeoutError == [kind |-> "Timeout", query |-> NoQuery, available |-> << >>, msg |-> NoMessage]

\* what the driver raises under an action: its own timeout, or the page is
\* closed or crashed
DriverFaults == {"DriverTimeout", "PageClosed"}

VerbIdle ==
  /\ verb = NoVerb /\ vpc = "none" /\ vdone = << >> /\ vslept = FALSE
  /\ verr = NoErr /\ vfault = NoErr /\ vacted = << >>

\* every action of a verb leaves fill_form and page_summary alone
VerbFrame == UNCHANGED <<resolveVars, agentVars, formVars, summaryVars, lifeVars>>

ProceedsMut(o) == TRUE

\* the statements after `el = await _with_retry(...)` run when it returned
Proceeds(o) == o.kind = "returned"

\* `el = await _with_retry(page, query, retry)` has ended
VerbResolved ==
  /\ vpc = "resolve" /\ rpc = "done"
  /\ IF Proceeds(outcome)
     THEN vpc' = "act" /\ UNCHANGED verr
     ELSE vpc' = "raised" /\ verr' = outcome.err
  /\ UNCHANGED <<verb, vdone, vslept, vfault, vacted>>
  /\ VerbFrame

\* the elements `el.locator` stands for at this moment: the locator of the
\* descriptor is the lazy `loc.first` of the strategy that matched, which
\* the driver resolves against the page each time an action goes through it
Targets(el) == MatchList(el.locator, page)

\* the driver action at hand completes, on the element el.locator resolves
\* to now; after the last one of a resolving verb comes random_delay,
\* wait_for_text returns
VerbAct ==
  /\ vpc = "act"
  /\ verb.name \in ResolvingVerbs => Targets(outcome.el) # << >>
  /\ LET done == Append(vdone, DriverActions(verb)[Len(vdone) + 1]) IN
     /\ vdone' = done
     /\ vpc' = IF Len(done) < Len(DriverActions(verb)) THEN "act"
               ELSE IF verb.name \in ResolvingVerbs THEN "pause" ELSE "returned"
  /\ vacted' = IF verb.name \in ResolvingVerbs
                THEN Append(vacted, First(Targets(outcome.el)))
                ELSE vacted
  /\ UNCHANGED <<verb, vslept, verr, vfault>>
  /\ VerbFrame

\* the page changes while the verb is suspended at a driver action
VerbMutate ==
  /\ vpc = "act"
  /\ mutations < MaxMutations
  /\ page' \in Edits(page)
  /\ mutations' = mutations + 1
  /\ UNCHANGED <<query, max_retries, findVars, retryVars>>
  /\ UNCHANGED <<agentVars, extVars>>

ConvertedMut(v, e) == e

\* what leaves the verb when the driver raises e under an action: only
\* wait_for_text has an except clause, `except Exception as e: raise
\* TimeoutError(...) from e`
Converted(v, e) == IF v.name = "wait_for_text" THEN TimeoutError ELSE e

\* the driver action at hand raises
VerbActFail ==
  /\ vpc = "act"
  /\ \E k \in DriverFaults :
       /\ vfault' = DriverError(k)
       /\ verr' = Converted(verb, DriverError(k))
  /\ vpc' = "raised"
  /\ UNCHANGED <<verb, vdone, vslept, vacted>>
  /\ VerbFrame

\* `await random_delay(stealth)` and `return el`
VerbPause ==
  /\ vpc = "pause"
  /\ vslept' = verb.enabled
  /\ vpc' = "returned"
  /\ UNCHANGED <<verb, vdone, verr, vfault, vacted>>
  /\ VerbFrame

(* ----------------------------- fill_form ------------------------------- *)

\* The fields of the page by label: the tag find_element reports and the
\* type attribute ("" when the element has none).
FieldElements ==
  [l \in {"Email", "Agree", "Plan", "Size", "Bio"} |->
     CASE l = "Email" -> [tag |-> "input",  type |-> ""]
       [] l = "Agree" -> [tag |-> "input",  type |-> "checkbox"]
       [] l = "Plan"  -> [tag |-> "select", type |-> ""]
       [] l = "Size"  -> [tag |-> "input",  type |-> "radio"]
       [] OTHER       -> [tag |-> "div",    type |-> ""]]

\* DetectedForm.submit_text of the first form
SubmitText == "Submit"

\* values a caller gives for a checkbox, as sequences of characters
CheckValues ==
  {<<"Y", "E", "S">>, <<"O", "n">>, <<"1">>, <<"t", "r", "u", "e">>,
   <<"f", "a", "l", "s", "e">>, <<" ", "o", "n">>, << >>}

TextValue == <<"x">>

\* str.lower() on one character
LowerChar(c) ==
  CASE c = "Y" -> "y" [] c = "E" -> "e" [] c = "S" -> "s" [] c = "O" -> "o"
    [] OTHER -> c

\* str.lower()
Lower(v) == [i \in 1..Len(v) |-> LowerChar(v[i])]

Truthy == {<<"t", "r", "u", "e">>, <<"y", "e", "s">>, <<"1">>, <<"o", "n">>}

ShouldCheckMut(v) == v \in Truthy

\* `should_check = value.lower() in ("true", "yes", "1", "on")`
ShouldCheck(v) == Lower(v) \in Truthy

\* the pairs a caller can give
Pairs ==
  {[label |-> l, value |-> v] :
     l \in DOMAIN FieldElements \ {"Agree"}, v \in {TextValue}}
    \cup {[label |-> "Agree", value |-> v] : v \in CheckValues}

\* a dict has every key once
FieldValues ==
  {fv \in SeqsUpTo(Pairs, MaxFields) :
     \A i, j \in 1..Len(fv) : i # j => fv[i].label # fv[j].label}

Labels(fv) == {fv[i].label : i \in 1..Len(fv)}

FormCalls ==
  {[submit |-> FALSE, realistic |-> TRUE],
   [submit |-> TRUE,  realistic |-> TRUE],
   [submit |-> TRUE,  realistic |-> FALSE]}

NoCall == [submit |-> FALSE, realistic |-> FALSE]

Op(l, op) == [label |-> l, op |-> op]

\* the type-specific handling of one pair: the driver actions made on the
\* element find_element returned for label l
FieldActions(l, v, isChecked, realistic) ==
  LET el == FieldElements[l]
      input_type == IF el.type = "" THEN "text" ELSE el.type IN
  IF el.tag = "select" THEN <<Op(l, "select_option")>>
  ELSE IF el.tag \in {"input", "textarea"} THEN
    IF input_type = "checkbox"
    THEN (IF isChecked # ShouldCheck(v) THEN <<Op(l, "click")>> ELSE << >>)
    ELSE IF input_type = "radio" THEN <<Op(l, "click")>>
    ELSE <<Op(l, "clear"), Op(l, IF realistic THEN "press_sequentially" ELSE "fill")>>
  ELSE <<Op(l, "fill")>>

NoFormErr == [kind |-> "none", at |-> 0, step |-> ""]

\* an error, the pair in whose handling it was raised (0 after the loop)
\* and the await that raised it
FormErr(kind, at, step) == [kind |-> kind, at |-> at, step |-> step]

FormIdle ==
  /\ field_values = << >> /\ fcall = NoCall /\ present = {} /\ late = {}
  /\ checked = FALSE /\ checked0 = FALSE /\ hasForm = FALSE
  /\ ppc = "none" /\ fidx = 0 /\ pending = << >> /\ fops = << >>
  /\ ferr = NoFormErr /\ finds = << >> /\ presses = 0 /\ fcaught = << >>

\* every action of fill_form leaves the resolver, the agent, the verbs and
\* page_summary alone
FormFrame == UNCHANGED <<resolveVars, agentVars, verbVars, summaryVars, lifeVars>>

UnhandledMut == "delay"

\* the loop over the pairs has no try: an exception leaves fill_form
Unhandled == "raised"

AfterPairMut(i) == IF i < Len(field_values) THEN "find" ELSE "detect"

\* where fill_form is after pair i: at find_element for the next pair, or
\* after the loop at `if submit:`
AfterPair(i) ==
  IF i < Len(field_values) THEN "find"
  ELSE IF fcall.submit THEN "detect" ELSE "returned"

\* `el = await find_element(page, label, retry)`: one call, no _with_retry
FormFind ==
  /\ ppc = "find"
  /\ LET l == field_values[fidx].label IN
     /\ finds' = Append(finds, l)
     /\ IF l \in present
        THEN LET acts == FieldActions(l, field_values[fidx].value, checked, fcall.realistic) IN
             /\ pending' = acts
             /\ ppc' = IF acts = << >> THEN "delay" ELSE "apply"
             /\ UNCHANGED ferr
        ELSE /\ ppc' = Unhandled
             /\ ferr' = FormErr("NotFound", fidx, ppc)
             /\ UNCHANGED pending
  /\ UNCHANGED <<field_values, fcall, present, late, checked, checked0, hasForm,
                 fidx, fops, presses, fcaught>>
  /\ FormFrame

\* the driver action at hand completes
FormAct ==
  /\ ppc = "apply"
  /\ LET a == Head(pending) IN
     /\ fops' = Append(fops, a)
     /\ checked' = IF a.label = "Agree" /\ a.op = "click" THEN ~checked ELSE checked
  /\ pending' = Tail(pending)
  /\ ppc' = IF Tail(pending) = << >> THEN "delay" ELSE "apply"
  /\ UNCHANGED <<field_values, fcall, present, late, checked0, hasForm,
                 fidx, ferr, finds, presses, fcaught>>
  /\ FormFrame

\* `await random_delay(stealth)`, then the next pair or the end of the loop
FormDelay ==
  /\ ppc = "delay"
  /\ ppc' = AfterPair(fidx)
  /\ fidx' = IF fidx < Len(field_values) THEN fidx + 1 ELSE fidx
  /\ UNCHANGED <<field_values, fcall, present, late, checked, checked0, hasForm,
                 pending, fops, ferr, finds, presses, fcaught>>
  /\ FormFrame

\* `forms = await detect_forms(page)` and `if forms:`
FormDetect ==
  /\ ppc = "detect"
  /\ ppc' = IF hasForm THEN "sfind" ELSE "key"
  /\ UNCHANGED <<field_values, fcall, present, late, checked, checked0, hasForm,
                 fidx, pending, fops, ferr, finds, presses, fcaught>>
  /\ FormFrame

\* `el = await find_element(page, forms[0].submit_text, retry)` inside the
\* try: ElementNotFoundError is caught by `except Exception`
FormSubmitFind ==
  /\ ppc = "sfind"
  /\ finds' = Append(finds, SubmitText)
  /\ IF SubmitText \in present
     THEN ppc' = "sclick" /\ UNCHANGED fcaught
     ELSE ppc' = "key" /\ fcaught' = Append(fcaught, "NotFound")
  /\ UNCHANGED <<field_values, fcall, present, late, checked, checked0, hasForm,
                 fidx, pending, fops, ferr, presses>>
  /\ FormFrame

\* `await el.locator.click()` inside the try completes
FormSubmitClick ==
  /\ ppc = "sclick"
  /\ fops' = Append(fops, Op(SubmitText, "click"))
  /\ ppc' = "returned"
  /\ UNCHANGED <<field_values, fcall, present, late, checked, checked0, hasForm,
                 fidx, pending, ferr, finds, presses, fcaught>>
  /\ FormFrame

\* `await page.keyboard.press("Enter")` completes
FormKey ==
  /\ ppc = "key"
  /\ presses' = presses + 1
  /\ ppc' = "returned"
  /\ UNCHANGED <<field_values, fcall, present, late, checked, checked0, hasForm,
                 fidx, pending, fops, ferr, finds, fcaught>>
  /\ FormFrame

\* the driver raises under the call being awaited (a timeout of the action,
\* a closed page): inside the try of the submit step `except Exception`
\* catches it, anywhere else it leaves fill_form; under find_element the
\* call was made
FormFault ==
  /\ ppc \in {"find", "apply", "detect", "sfind", "sclick", "key"}
  /\ \E k \in DriverFaults :
       IF ppc \in {"sfind", "sclick"}
       THEN ppc' = "key" /\ fcaught' = Append(fcaught, k) /\ UNCHANGED ferr
       ELSE /\ ppc' = "raised"
            /\ ferr' = FormErr(k, IF ppc \in {"find", "apply"} THEN fidx ELSE 0, ppc)
            /\ UNCHANGED fcaught
  /\ finds' = CASE ppc = "find"  -> Append(finds, field_values[fidx].label)
                [] ppc = "sfind" -> Append(finds, SubmitText)
                [] OTHER         -> finds
  /\ UNCHANGED <<field_values, fcall, present, late, checked, checked0, hasForm,
                 fidx, pending, fops, presses>>
  /\ FormFrame

\* the page renders a label it did not hold yet
Render ==
  /\ ppc \notin {"none", "returned", "raised"}
  /\ \E l \in late : present' = present \cup {l} /\ late' = late \ {l}
  /\ UNCHANGED <<field_values, fcall, checked, checked0, hasForm,
                 ppc, fidx, pending, fops, ferr, finds, presses, fcaught>>
  /\ FormFrame

(* ---------------------------- page_summary ----------------------------- *)

\* page_summary(page, max_items=20)
DefaultMaxItems == 20

SummaryRoles ==
  <<"button", "link", "textbox", "combobox", "checkbox", "radio", "tab", "menuitem">>

FormsShown == 3

FieldsShown == 10

NavShown == 10

NavTextLimit == 30

ContentLines == 8

\* An element of a role: visible or not, with a name (inner text, or
\* placeholder) or not, the line breaks in what its entry shows (the
\* name, or the value of a textbox), whether input_value() is non-empty,
\* is_checked(), and whether aria-selected is "true".
PlainElem ==
  [visible |-> TRUE, named |-> TRUE, nl |-> 0, value |-> TRUE, checked |-> TRUE, selected |-> TRUE]

HiddenElem ==
  [visible |-> FALSE, named |-> TRUE, nl |-> 0, value |-> TRUE, checked |-> TRUE, selected |-> TRUE]

BlankElem ==
  [visible |-> TRUE, named |-> FALSE, nl |-> 0, value |-> FALSE, checked |-> FALSE, selected |-> FALSE]

\* a <textarea> that holds two lines of text
TwoLineElem ==
  [visible |-> TRUE, named |-> TRUE, nl |-> 1, value |-> TRUE, checked |-> FALSE, selected |-> FALSE]

\* window.location.origin and hrefs, as sequences of characters: host "a"
\* is the page's own, hosts "ab" and "c" are others
CurrentOrigin == <<"/", "/", "a">>

OwnHref == <<"/", "/", "a", "/", "x">>

LookalikeHref == <<"/", "/", "a", "b", "/">>

OtherHref == <<"/", "/", "c", "/">>

\* the origin of an href: what comes before the first "/" of the path
RECURSIVE HostEnd(_, _)
HostEnd(h, i) == IF i > Len(h) \/ h[i] = "/" THEN i - 1 ELSE HostEnd(h, i + 1)

UrlOrigin(h) == SubSeq(h, 1, HostEnd(h, 3))

ShortLink == [href |-> OwnHref, len |-> 4]

\* the elements of role r on a page of a shape: all plain; plain but for
\* textareas of two lines; or a hidden first and nameless further elements
RoleElems(n, shape, r) ==
  [i \in 1..n |->
     CASE shape = "plain"   -> PlainElem
       [] shape = "twoline" -> (IF r = "textbox" THEN TwoLineElem ELSE PlainElem)
       [] OTHER             -> (IF i = 1 THEN HiddenElem ELSE BlankElem)]

\* The text of the content container after slice(0, 500) and strip(), as
\* split("\n") gives it: TRUE for a line that is not blank.  A text of
\* n lines without a blank one, or with every second line blank.
ContentText(n, spaced) == [i \in 1..n |-> ~spaced \/ i % 2 = 1]

\* the pages page_summary is given: so many elements of each role (of
\* button only, or of all roles); forms with so many fields; links; lines
\* of content
SummaryPages ==
  {[els     |-> [r \in {SummaryRoles[i] : i \in 1..Len(SummaryRoles)} |->
                   IF all \/ r = "button" THEN RoleElems(n, shape, r) ELSE << >>],
    forms   |-> Rep(nfields, nforms),
    links   |-> lead \o Rep(ShortLink, nlinks),
    content |-> text] :
     n \in 1..MaxElems, all \in BOOLEAN, shape \in {"plain", "twoline", "mixed"},
     nforms \in {0, 1, FormsShown + 1}, nfields \in {1, FieldsShown + 1},
     lead \in {<< >>, <<[href |-> LookalikeHref, len |-> 4]>>,
               <<[href |-> OtherHref, len |-> 4], [href |-> OwnHref, len |-> NavTextLimit]>>},
     nlinks \in {0, 1, MaxLinks},
     text \in {<< >>, ContentText(ContentLines + 1, FALSE), ContentText(ContentLines + 1, TRUE)}}

NoPage == [els |-> << >>, forms |-> << >>, links |-> << >>, content |-> << >>]

\* an item of `lines` that is not an entry of an element
Line(sec, nl) ==
  [sec |-> sec, nl |-> nl, visible |-> TRUE, named |-> TRUE, value |-> FALSE,
   state |-> "", shows |-> {}]

\* what the entry of an element of the role shows besides the name
Shows(role, e) ==
  CASE role = "textbox"               -> IF e.value THEN {"value"} ELSE {}
    [] role \in {"checkbox", "radio"} -> IF e.checked THEN {"checked"} ELSE {"unchecked"}
    [] role = "tab"                   -> IF e.selected THEN {"active"} ELSE {}
    [] OTHER                          -> {}

\* the state of an element that the spec has its entry show
StateOf(role, e) ==
  CASE role \in {"textbox", "combobox"} -> IF e.value THEN "value" ELSE ""
    [] role \in {"checkbox", "radio"}   -> IF e.checked THEN "checked" ELSE "unchecked"
    [] role = "tab"                     -> IF e.selected THEN "active" ELSE ""
    [] OTHER                            -> ""

\* the entry of element e of the role
Entry(role, e) ==
  [sec |-> role, nl |-> e.nl, visible |-> e.visible, named |-> e.named, value |-> e.value,
   state |-> StateOf(role, e), shows |-> Shows(role, e)]

Max(a, b) == IF a > b THEN a ELSE b

\* seq[:n] for n >= 0
Slice(seq, n) == SubSeq(seq, 1, Min(Len(seq), n))

\* the entries one round of the role loop appends: of the first
\* min(count, max_items) elements those that are visible and, unless the
\* role is textbox or combobox, have a name
RoleLines(role, els, m) ==
  LET first == Slice(els, Max(0, m))
      kept  == SelectSeq(first, LAMBDA e :
                 e.visible /\ (role \in {"textbox", "combobox"} \/ e.named))
  IN  [i \in 1..Len(kept) |-> Entry(role, kept[i])]

\* the lines of one form: its header, its first 10 fields, its submit text
FormLines(nfields) ==
  <<Line("form", 0)>> \o Rep(Line("field", 0), Min(nfields, FieldsShown))
    \o <<Line("submit", 0)>>

RECURSIVE Flatten(_)
Flatten(ss) == IF ss = << >> THEN << >> ELSE Head(ss) \o Flatten(Tail(ss))

\* the forms section: the first 3 forms
FormsLines(forms) ==
  IF forms = << >> THEN <<Line("FORMS: None visible", 0)>>
  ELSE <<Line("FORMS:", 0)>>
         \o Flatten([j \in 1..Min(Len(forms), FormsShown) |-> FormLines(forms[j])])

\* Link.is_external as get_links computes it
is_external(link) == ~StartsWith(link.href, CurrentOrigin)

\* positions of the links `nav_links` holds: not external, text shorter
\* than 30, the first max_items of them
NavLinks(links, m) ==
  Slice(SelectSeq([i \in 1..Len(links) |-> i],
                  LAMBDA i : ~is_external(links[i]) /\ links[i].len < NavTextLimit), m)

\* the lines of the content preview: of the first 8 lines of the text those
\* that are not blank
ContentShown(text) ==
  LET kept == SelectSeq(Slice(text, ContentLines), LAMBDA nonblank : nonblank)
  IN  Rep(Line("content", 0), Len(kept))

SectionsMut == <<"head", "roles", "nav", "forms", "content", "returned">>

\* the blocks of the body of page_summary, in the order of the body
Sections == <<"head", "roles", "forms", "nav", "content", "returned">>

\* the block after block s
After(s) == Sections[(CHOOSE i \in 1..Len(Sections) : Sections[i] = s) + 1]

SummaryIdle ==
  /\ max_items = 0 /\ spage = NoPage /\ spc = "none" /\ srole = 0
  /\ lines = << >> /\ nav_links = << >>
  /\ scall = 0 /\ prev = << >> /\ schanged = FALSE

ExtIdle == VerbIdle /\ FormIdle /\ SummaryIdle /\ LifeIdle

SummaryFrame == UNCHANGED <<resolveVars, agentVars, verbVars, formVars, lifeVars>>

\* get_meta and the header lines
SummaryHead ==
  /\ spc = "head"
  /\ lines' = <<Line("URL", 0), Line("Title", 0), Line("", 0), Line("VISIBLE ELEMENTS:", 0)>>
  /\ spc' = After("head") /\ srole' = 1
  /\ UNCHANGED <<max_items, spage, nav_links, scall, prev, schanged>>
  /\ SummaryFrame

\* one round of the loop over the roles
SummaryRole ==
  /\ spc = "roles"
  /\ lines' = lines \o RoleLines(SummaryRoles[srole], spage.els[SummaryRoles[srole]], max_items)
                    \o (IF srole = Len(SummaryRoles) THEN <<Line("", 0)>> ELSE << >>)
  /\ IF srole = Len(SummaryRoles) THEN spc' = After("roles") /\ UNCHANGED srole
     ELSE srole' = srole + 1 /\ UNCHANGED spc
  /\ UNCHANGED <<max_items, spage, nav_links, scall, prev, schanged>>
  /\ SummaryFrame

\* detect_forms and the forms section
SummaryForms ==
  /\ spc = "forms"
  /\ lines' = lines \o FormsLines(spage.forms) \o <<Line("", 0)>>
  /\ spc' = After("forms")
  /\ UNCHANGED <<max_items, spage, srole, nav_links, scall, prev, schanged>>
  /\ SummaryFrame

\* get_links and the navigation line, which joins nav_links[:10]
SummaryNav ==
  /\ spc = "nav"
  /\ LET nav == NavLinks(spage.links, max_items) IN
     /\ nav_links' = Slice(nav, NavShown)
     /\ lines' = lines \o (IF nav # << >> THEN <<Line("NAVIGATION", 0)>> ELSE << >>)
                       \o <<Line("", 0)>>
  /\ spc' = After("nav")
  /\ UNCHANGED <<max_items, spage, srole, scall, prev, schanged>>
  /\ SummaryFrame

\* the content preview: the first 8 lines of the text, and the return
SummaryContent ==
  /\ spc = "content"
  /\ lines' = lines \o (IF spage.content # << >>
                        THEN <<Line("PAGE CONTENT (preview):", 0)>>
                               \o ContentShown(spage.content)
                        ELSE << >>)
  /\ spc' = After("content")
  /\ UNCHANGED <<max_items, spage, srole, nav_links, scall, prev, schanged>>
  /\ SummaryFrame

\* the caller calls page_summary again with the same max_items
SummaryAgain ==
  /\ spc = "returned" /\ scall = 1
  /\ prev' = lines /\ scall' = 2
  /\ spc' = "head" /\ srole' = 0 /\ lines' = << >> /\ nav_links' = << >>
  /\ UNCHANGED <<max_items, spage, schanged>>
  /\ SummaryFrame

\* between the two calls the page loses its content text
PageChange ==
  /\ spc = "returned" /\ scall = 1 /\ ~schanged
  /\ spage.content # << >>
  /\ spage' = [spage EXCEPT !.content = << >>]
  /\ schanged' = TRUE
  /\ UNCHANGED <<max_items, spc, srole, lines, nav_links, scall, prev>>
  /\ SummaryFrame

(* -------------------------- specifications ----------------------------- *)

\* the resolver under _with_retry on a changing page; the agent is not used
Init == InitResolve /\ InitAgentAt(<< >>) /\ ExtIdle

Next ==
  \/ FindCount
  \/ FindEval
  \/ FindText
  \/ FindAvail
  \/ DriverFault
  \/ RetryLoop
  \/ RetryReturn
  \/ RetryCatch
  \/ RetryPropagate
  \/ RetryWake
  \/ Mutate

Spec == Init /\ [][Next]_vars

\* the agent replaying a stored recording; the resolver is not used
InitReplay == InitAgent /\ InitResolveAt(<<"o", "k">>, << >>, DefaultMaxRetries) /\ ExtIdle

NextReplay ==
  \/ AgentStart
  \/ AgentStartRecording
  \/ ReplayCall
  \/ ReplayDispatch
  \/ ReplayResume
  \/ ReplayFail
  \/ ReplayReturn

SpecReplay == InitReplay /\ [][NextReplay]_vars

\* the user records sessions while time passes; the resolver is not used
InitRecord == InitAgentAt(<< >>) /\ InitResolveAt(<<"o", "k">>, << >>, DefaultMaxRetries) /\ ExtIdle

NextRecord ==
  \/ AgentStart
  \/ AgentStartRecording
  \/ AgentStopRecording
  \/ AgentVerb
  \/ Tick

SpecRecord == InitRecord /\ [][NextRecord]_vars

\* the buffer of a session in which goto was called once
Base == Record(<< >>, TRUE, "goto", {<<"url", "B">>}, 0)

\* the agent after start(), start_recording() and goto(url="B"), with a
\* recording in its storage
InitReplayRec ==
  /\ \E rec \in Recordings : stored = rec
  /\ started = TRUE
  /\ recording = TRUE
  /\ actions = Base
  /\ rstack = << >> /\ calls = << >> /\ routcome = NoOutcomeR
  /\ now = 0 /\ start_time = 0 /\ stop_result = NoStop
  /\ invoked = <<Invocation("goto", {<<"url", "B">>}, 1)>>
  /\ session = [at |-> 0, dropped |-> 0, was |-> FALSE, flip |-> TRUE]
  /\ InitResolveAt(<<"o", "k">>, << >>, DefaultMaxRetries)
  /\ ExtIdle

\* the agent replays the stored recording while it records
NextReplayRec ==
  \/ ReplayCall
  \/ ReplayDispatch
  \/ ReplayResume
  \/ ReplayFail
  \/ ReplayReturn

SpecReplayRec == InitReplayRec /\ [][NextReplayRec]_vars

\* the user starts and closes the agent, records, and calls operations in
\* any order; the resolver is not used
NextLifecycle ==
  \/ AgentStart
  \/ AgentClose
  \/ AgentRestart
  \/ AgentStartRecording
  \/ AgentOp
  \/ ReplayCall
  \/ ReplayReturn

SpecLifecycle == InitRecord /\ [][NextLifecycle]_vars

\* the user records a session, saves it and replays it, on a clock too
\* coarse to tell the calls apart; the resolver is not used
NextRoundTrip ==
  \/ AgentStart
  \/ AgentStartRecording
  \/ AgentStopRecording
  \/ AgentVerb
  \/ AgentSaveRecording
  \/ ReplayCall
  \/ ReplayDispatch
  \/ ReplayResume
  \/ ReplayFail
  \/ ReplayReturn

SpecRoundTrip == InitRecord /\ [][NextRoundTrip]_vars

\* one call of find_element through _with_retry on a crowded page where no
\* strategy has a match
InitSuggest ==
  /\ \E p \in CrowdPages : InitResolveAt(<<"o", "k">>, p, 1)
  /\ InitAgentAt(<< >>)
  /\ ExtIdle

NextSuggest ==
  \/ RetryLoop
  \/ FindCount
  \/ FindAvail
  \/ RetryCatch

SpecSuggest == InitSuggest /\ [][NextSuggest]_vars

\* a verb of actions.py called on a page that may change under it
VerbPages == {p \in Pages : Len(p) <= 1}

InitVerb ==
  /\ InitAgentAt(<< >>)
  /\ \E v \in PlainCalls \cup TypeCalls \cup WaitCalls, p \in VerbPages :
       /\ verb = v
       /\ IF v.name \in ResolvingVerbs
          THEN InitResolveAt(<<"o", "k">>, p, DefaultMaxRetries) /\ vpc = "resolve"
          ELSE /\ query = <<"o", "k">> /\ page = p /\ mutations = 0
               /\ max_retries = DefaultMaxRetries
               /\ FindIdle
               /\ rpc = "idle" /\ attempt = 0 /\ last_err = NoErr /\ outcome = NoOutcome
               /\ attempts = 0 /\ delays = 0 /\ caught = << >>
               /\ vpc = "act"
  /\ vdone = << >> /\ vslept = FALSE /\ verr = NoErr /\ vfault = NoErr /\ vacted = << >>
  /\ FormIdle /\ SummaryIdle /\ LifeIdle

NextVerb ==
  \/ FindCount
  \/ FindEval
  \/ FindText
  \/ FindAvail
  \/ DriverFault
  \/ RetryLoop
  \/ RetryReturn
  \/ RetryCatch
  \/ RetryPropagate
  \/ RetryWake
  \/ Mutate
  \/ VerbResolved
  \/ VerbAct
  \/ VerbMutate
  \/ VerbActFail
  \/ VerbPause

SpecVerb == InitVerb /\ [][NextVerb]_vars

\* fill_form called with pairs, of which the page may not hold one yet
InitForm ==
  /\ InitAgentAt(<< >>) /\ InitResolveAt(<<"o", "k">>, << >>, DefaultMaxRetries)
  /\ VerbIdle /\ SummaryIdle /\ LifeIdle
  /\ \E fv \in FieldValues, c \in FormCalls, form \in BOOLEAN, c0 \in BOOLEAN :
     \E sub \in (IF c.submit /\ form THEN {{}, {SubmitText}} ELSE {{}}),
        miss \in {{}} \cup {{l} : l \in Labels(fv)} \cup (IF c.submit /\ form THEN {{SubmitText}} ELSE {}) :
       /\ field_values = fv /\ fcall = c /\ hasForm = form
       /\ checked = c0 /\ checked0 = c0
       /\ late = miss
       /\ present = (Labels(fv) \cup sub) \ miss
  /\ fidx = IF field_values = << >> THEN 0 ELSE 1
  /\ ppc = AfterPair(0)
  /\ pending = << >> /\ fops = << >> /\ ferr = NoFormErr /\ finds = << >>
  /\ presses = 0 /\ fcaught = << >>

NextForm ==
  \/ FormFind
  \/ FormAct
  \/ FormDelay
  \/ FormDetect
  \/ FormSubmitFind
  \/ FormSubmitClick
  \/ FormKey
  \/ FormFault
  \/ Render

SpecForm == InitForm /\ [][NextForm]_vars

\* page_summary called on a page
InitSummary ==
  /\ InitAgentAt(<< >>) /\ InitResolveAt(<<"o", "k">>, << >>, DefaultMaxRetries)
  /\ VerbIdle /\ FormIdle /\ LifeIdle
  /\ max_items \in 0..MaxItems \cup {DefaultMaxItems}
  /\ spage \in SummaryPages
  /\ spc = "head" /\ srole = 0 /\ lines = << >> /\ nav_links = << >>
  /\ scall = 1 /\ prev = << >> /\ schanged = FALSE

NextSummary ==
  \/ SummaryHead
  \/ SummaryRole
  \/ SummaryForms
  \/ SummaryNav
  \/ SummaryContent
  \/ SummaryAgain
  \/ PageChange

SpecSummary == InitSummary /\ [][NextSummary]_vars

(* ------------------------------ claims --------------------------------- *)

\* the strategies the chain applies to query q that have a match on page p
Matching(q, p) ==
  {s \in Strategies : (s = 1 => _looks_like_selector(q)) /\ MatchList(s, p) # << >>}

Earliest(S) == CHOOSE s \in S : \A t \in S : s <= t

C2_DescriptorFromMatch ==
  fpc = "returned" =>
    /\ reads.count > 0
    /\ result.locator \in Strategies
    /\ reads.tagFrom \in ElemIds
    /\ ElemMatches(result.locator, reads.tagFrom)
    /\ result.tag = Catalog[reads.tagFrom].tag
    /\ reads.textFrom # 0 =>
         /\ ElemMatches(result.locator, reads.textFrom)
         /\ result.text = DisplayText(reads.textFrom)
    /\ reads.textFrom = 0 => result.text = NoText

\* C2's case: the page changed between the reads, and tag and text come
\* from two different matches
C2_Witness ==
  /\ fpc = "returned" /\ callMutated
  /\ reads.textFrom # 0 /\ reads.textFrom # reads.tagFrom

\* C3: when no strategy has a match (and the page neither changes nor
\* closes during the call) find_element raises ElementNotFoundError with
\* the caller's query, and the message holds the query.
C3_NotFoundOnly ==
  (/\ fpc = "raised" /\ ~callMutated /\ err.kind # "PageClosed"
   /\ \A s \in Strategies : MatchList(s, page) = << >>) =>
    /\ err.kind = "NotFound"
    /\ err.query = query
    /\ err.msg.query = query

notFounds == Len(caught)

\* C4: when _with_retry returns a descriptor after k caught
\* ElementNotFoundErrors it has made exactly k + 1 calls of find_element and
\* slept exactly k times, and the descriptor is that of the last call; with
\* k = max_retries - 1 that is max_retries calls and max_retries - 1 sleeps.
C4_SucceedsAfterDelays ==
  (rpc = "done" /\ outcome.kind = "returned") =>
    /\ attempts = notFounds + 1
    /\ delays = notFounds
    /\ attempts <= max_retries
    /\ outcome.el = result
    /\ outcome.el # NoElement

\* C4's case: two failures, then success at the third and last attempt
C4_Witness ==
  /\ rpc = "done" /\ outcome.kind = "returned"
  /\ max_retries = 3 /\ attempts = 3 /\ delays = 2

\* C5: with max_retries = N >= 1 and every call of find_element raising
\* ElementNotFoundError, _with_retry makes exactly N calls and raises the
\* error of the N-th call unchanged.
C5_LastNotFoundRaised ==
  (rpc = "done" /\ max_retries >= 1 /\ notFounds = attempts) =>
    /\ attempts = max_retries
    /\ outcome.kind = "raised"
    /\ outcome.err = caught[max_retries]
    /\ outcome.err.kind = "NotFound"
    /\ outcome.err.query = query

\* C5's case: three failed attempts whose suggestions differ
C5_Witness ==
  /\ rpc = "done" /\ max_retries = 3 /\ notFounds = 3 /\ attempts = 3
  /\ caught[1].available # caught[3].available
  /\ outcome.err.available = caught[3].available

\* C6: an error of find_element that is no ElementNotFoundError leaves
\* _with_retry at once: the failing call is the last one, and no sleep
\* follows it.
C6_FaultNotRetried ==
  (rpc = "done" /\ outcome.kind = "raised"
     /\ outcome.err.kind \in {"PageClosed", "DriverTimeout", "SelectorError"}) =>
    /\ attempts = notFounds + 1
    /\ delays = notFounds
    /\ outcome.err = err
    /\ \A i \in 1..Len(caught) : caught[i].kind = "NotFound"

\* C6's case: a driver error in the second attempt with budget left
C6_Witness ==
  /\ rpc = "done" /\ outcome.kind = "raised"
  /\ outcome.err.kind \in {"PageClosed", "DriverTimeout"}
  /\ notFounds = 1 /\ attempts = 2 /\ max_retries = 3

\* C7: every RetryConfig has max_retries >= 1, so _with_retry calls
\* find_element at least once and ends with a descriptor, an
\* ElementNotFoundError or a driver error.
C7_AtLeastOneAttempt ==
  rpc = "done" =>
    /\ max_retries >= 1
    /\ attempts >= 1
    /\ \/ outcome.kind = "returned"
       \/ /\ outcome.kind = "raised"
          /\ outcome.err.kind \in {"NotFound", "PageClosed", "DriverTimeout", "SelectorError"}

SupportedVerbs ==
  {"goto", "back", "forward", "refresh", "click", "type", "hover", "select",
   "scroll_down", "scroll_up", "scroll_to", "wait_for", "wait", "press",
   "fill_form", "screenshot"}

IsPrefix(a, b) == Len(a) <= Len(b) /\ SubSeq(b, 1, Len(a)) = a

\* a comes before b in the order replay walks the recording: a is a proper
\* prefix of b (b runs inside the nested replay a), or a is smaller at the
\* first position where they differ
PathBefore(a, b) ==
  \/ (IsPrefix(a, b) /\ Len(a) < Len(b))
  \/ \E i \in 1..Min(Len(a), Len(b)) :
       /\ a[i] < b[i]
       /\ \A j \in 1..(i - 1) : a[j] = b[j]

\* C8: replay calls the stored entries in recorded order, each with its
\* stored arguments as keyword arguments, and a call is over before the next
\* one starts: at most one verb is in progress, and a call still in progress
\* when another starts is a nested replay running that other call.
C8_ReplayInOrder ==
  /\ \A k \in 1..Len(calls) :
       LET e == stored[calls[k].path[Len(calls[k].path)]] IN
       /\ calls[k].action = e.action
       /\ calls[k].kwargs = e.args
  /\ \A k \in 1..(Len(calls) - 1) :
       /\ PathBefore(calls[k].path, calls[k + 1].path)
       /\ calls[k].status = "running" =>
            /\ calls[k].action = "replay"
            /\ IsPrefix(calls[k].path, calls[k + 1].path)
  /\ Cardinality({k \in 1..Len(calls) : calls[k].status = "running" /\ calls[k].action # "replay"}) <= 1
  /\ routcome.kind = "returned" =>
       \A i \in 1..Len(stored) :
         stored[i].action \in SupportedVerbs =>
           \E k \in 1..Len(calls) : calls[k].path = <<i>> /\ calls[k].status = "done"

\* C8's case: goto(url=A) then type(query=Email, text=x), both replayed
C8_Witness ==
  /\ routcome.kind = "returned"
  /\ Len(stored) = 2
  /\ Len(calls) = 2
  /\ calls[1] = [path |-> <<1>>, action |-> "goto", kwargs |-> {<<"url", "A">>}, status |-> "done"]
  /\ calls[2] = [path |-> <<2>>, action |-> "type", kwargs |-> {<<"query", "Email">>, <<"text", "x">>}, status |-> "done"]

\* C9: every stored entry whose name is not a supported verb is skipped:
\* replay never calls it and never raises on its account.
C9_UnknownSkipped ==
  /\ \A k \in 1..Len(calls) : calls[k].action \in SupportedVerbs
  /\ routcome.kind = "raised" => routcome.by \in SupportedVerbs \cup {""}

\* C10: while replay is at an entry whose name is no supported verb, no
\* step changes the agent: started, the recording flag and the buffer stay.
C10_FixedTable ==
  [][(rstack # << >> /\ Top.idx <= Len(stored) /\ Current.action \notin SupportedVerbs)
       => (started' = started /\ recording' = recording /\ actions' = actions)]_vars

\* C11: when a call made by replay fails, replay ends with that error: the
\* failed call is the last call replay made, no frame of replay goes on, no
\* call is left in progress, and the calls made before it stay completed.
C11_FailureAborts ==
  /\ \A k \in 1..Len(calls) :
       calls[k].status = "failed" =>
         /\ routcome.kind = "raised"
         /\ calls[k].action # "replay" =>
              (k = Len(calls) /\ routcome.by = calls[k].action)
  /\ routcome.kind = "raised" =>
       /\ rstack = << >>
       /\ \A k \in 1..Len(calls) :
            /\ calls[k].status # "running"
            /\ (calls[k].action # "replay" /\ k < Len(calls)) => calls[k].status = "done"

\* C11's case: goto completes, type fails, and a third entry is never called
C11_Witness ==
  /\ routcome = Raised("ElementNotFoundError", "type")
  /\ Len(stored) = 3 /\ stored[3].action = "goto"
  /\ Len(calls) = 2
  /\ calls[1].action = "goto" /\ calls[1].status = "done"
  /\ calls[2].action = "type" /\ calls[2].status = "failed"

\* C12: every call of a public verb made while a recording session is
\* active (on a started agent) appends exactly one entry to the buffer.
C12_EveryVerbRecorded ==
  \A i \in 1..Len(invoked) :
    invoked[i].action \in SupportedVerbs => invoked[i].appended = 1

\* the calls of the session that appended an entry
Origin == SelectSeq(invoked, LAMBDA v : v.appended = 1)

\* C13: after stop_recording the session state is NotRecording, the value
\* returned holds the entries of the session in the order of the calls, and
\* the buffer of the recorder is empty.
C13_StopClears ==
  stop_result.set =>
    /\ ~recording
    /\ Len(stop_result.value) = Len(Origin)
    /\ \A i \in 1..Len(Origin) : stop_result.value[i].action = Origin[i].action
    /\ actions = << >>

\* C14: after start_recording, from either session state, the session is
\* active until the next stop, the time origin is the time of the start,
\* and the buffer, and so what the next stop returns, holds exactly the
\* entries of the calls made since that start, in their order, with
\* timestamps counted from that start.
C14_StartResets ==
  /\ recording => ~stop_result.set
  /\ (recording \/ stop_result.set) =>
       LET buf == IF stop_result.set THEN stop_result.value ELSE actions IN
       /\ start_time = session.at
       /\ Len(buf) = Len(Origin)
       /\ \A i \in 1..Len(buf) :
            /\ buf[i].action = Origin[i].action
            /\ buf[i].args \subseteq Effective(Origin[i].action, Origin[i].kwargs)
            /\ buf[i].timestamp \in 0..(now - session.at)
            /\ i > 1 => buf[i - 1].timestamp <= buf[i].timestamp

\* C14's case: start_recording during a session whose buffer is not empty
\* and after time has passed; one verb is recorded later still, and stop
\* returns that entry alone, timed from the second start
C14_Witness ==
  /\ stop_result.set
  /\ session.was /\ session.dropped >= 1 /\ session.at >= 1
  /\ Len(stop_result.value) = 1
  /\ stop_result.value[1].timestamp = 0

\* C15: within a session (from one start_recording to the next) a step
\* leaves the buffer as it is or appends one entry to it, and a step taken
\* in state NotRecording leaves it as it is.
C15_AppendOnly ==
  [][session' = session =>
       /\ IsPrefix(actions, actions')
       /\ Len(actions') <= Len(actions) + 1
       /\ ~recording => actions' = actions]_vars

\* C15's case: two entries in the buffer, and the session is over
C15_Witness ==
  /\ ~recording /\ stop_result.set
  /\ Len(actions) = 2
  /\ actions[1].action # actions[2].action

\* C16: when the entries a session recorded are saved and replayed, each
\* call replay makes is a call of the verb the user called, binding every
\* parameter, the optional ones too, to the value it had in the user's call.
C16_RoundTrip ==
  (stop_result.set /\ stop_result.value # << >> /\ stored = SaveLoad(stop_result.value)) =>
    \A k \in 1..Len(calls) :
      Len(calls[k].path) = 1 =>
        LET o == Origin[calls[k].path[1]] IN
        /\ calls[k].action = o.action
        /\ Effective(calls[k].action, calls[k].kwargs) = Effective(o.action, o.kwargs)

\* C17: for a query of structural-selector syntax the selector strategy is
\* the first one the driver is asked for; for any other query the selector
\* strategy is never asked for.
C17_SelectorGate ==
  fpc # "idle" =>
    /\ _looks_like_selector(query) =>
         \/ (queried = << >> /\ strat = 1)
         \/ (queried # << >> /\ queried[1] = 1)
    /\ ~_looks_like_selector(query) =>
         /\ strat # 1
         /\ \A i \in 1..Len(queried) : queried[i] # 1

\* C17's case: a selector-like query whose selector has no match, so that
\* the selector strategy was asked first and a later strategy produced the
\* descriptor
C17_Witness ==
  /\ fpc = "returned"
  /\ _looks_like_selector(query)
  /\ Len(queried) >= 2 /\ queried[1] = 1
  /\ result.locator > 1

\* the elements of role R whose accessible name contains the query
RoleNamed(R, p) == SelectSeq(p, LAMBDA e : Catalog[e].role = R /\ "name" \in Catalog[e].m)

\* the selector strategy applies to q and has a match on p
SelectorHits(q, p) ==
  /\ _looks_like_selector(q)
  /\ \E i \in 1..Len(p) : "selector" \in Catalog[p[i]].m

\* C18: for every role R of (button, link, menuitem, tab, option): when the
\* page (unchanged and open during the call) holds an element of role R whose
\* accessible name contains the query, the selector strategy has no match
\* and no earlier role has one, find_element returns the first such element
\* with role = R.
C18_RoleMatchReturned ==
  \A r \in 1..Len(RoleOrder) :
    (/\ fpc \in {"returned", "raised"} /\ ~callMutated /\ err.kind # "PageClosed"
     /\ RoleNamed(RoleOrder[r], page) # << >>
     /\ ~SelectorHits(query, page)
     /\ \A r2 \in 1..(r - 1) : RoleNamed(RoleOrder[r2], page) = << >>)
    => LET e == RoleNamed(RoleOrder[r], page)[1] IN
       /\ fpc = "returned"
       /\ result.role = RoleOrder[r]
       /\ reads.tagFrom = e
       /\ result.tag = Catalog[e].tag
       /\ result.text = DisplayText(e)

Submit == <<"S", "u", "b", "m", "i", "t">>

\* the page that holds <button>Submit</button> and nothing else
OnlySubmitButton == <<1>>

\* C19 as stated: resolving "Submit" on a page that holds only
\* <button>Submit</button> returns tag "button", text "Submit" and no role,
\* from the text strategy, after the role strategy for button was asked and
\* had no match.
C19_ButtonViaFreeText ==
  (fpc = "returned" /\ ~callMutated /\ query = Submit /\ page = OnlySubmitButton) =>
    /\ result.tag = "button"
    /\ result.text = [id |-> "Submit", ws |-> 0, len |-> 6]
    /\ result.role = "none"
    /\ Kind(result.locator) = "text"
    /\ \E i \in 1..Len(queried) : queried[i] = 2

\* C19 amended: resolving "Submit" on a page that holds only
\* <button>Submit</button> returns tag "button", text "Submit" and role
\* "button", from the role strategy for button, the first strategy asked.
C19_ButtonViaRole ==
  (/\ fpc \in {"returned", "raised"} /\ ~callMutated /\ err.kind # "PageClosed"
   /\ query = Submit /\ page = OnlySubmitButton) =>
    /\ fpc = "returned"
    /\ result.tag = "button"
    /\ result.text = [id |-> "Submit", ws |-> 0, len |-> 6]
    /\ result.role = "button"
    /\ result.label = NoQuery
    /\ Kind(result.locator) = "role"
    /\ queried = <<2>>

\* C19's case: "Submit" resolved on the page of the one button
C19_Witness ==
  /\ fpc = "returned" /\ ~callMutated
  /\ query = Submit /\ page = OnlySubmitButton
  /\ reads.tagFrom = 1 /\ reads.textFrom = 1

\* C20: every descriptor has a text of at most 100 characters, and for an
\* element whose tag is input, select or textarea no text is read from the
\* driver and the text of the descriptor is empty.
C20_TextOnlyForNonInput ==
  fpc = "returned" =>
    /\ result.text.ws + result.text.len <= 100
    /\ result.tag \in InputLike => (reads.textFrom = 0 /\ result.text = NoText)

\* position of a role in the scan order of _get_available_interactive
RoleRank(role) == CHOOSE i \in 1..Len(AvailableRoles) : AvailableRoles[i] = role

C22_ResolveActPause ==
  verb.name \in {"click", "type_text", "hover", "select_option", "scroll_to_element"} =>
    /\ (vpc \in {"act", "pause"} \/ vdone # << >> \/ vslept) =>
         (rpc = "done" /\ outcome.kind = "returned")
    /\ IsPrefix(vdone, DriverActions(verb))
    /\ (vpc = "pause" \/ vslept) => vdone = DriverActions(verb)
    /\ vpc = "returned" => (vdone = DriverActions(verb) /\ vdone # << >> /\ vslept = verb.enabled)
    /\ (rpc = "done" /\ outcome.kind = "raised") =>
         (vdone = << >> /\ ~vslept /\ vpc \in {"resolve", "raised"})
    /\ (vpc = "raised" /\ vfault = NoErr) => (verr = outcome.err /\ verr # NoErr)
    /\ DriverActions(verb)[1] \in
         {"click", "hover", "select_option", "scroll_into_view_if_needed",
          "clear", "press_sequentially", "fill"}

\* C22's cases: a type_text that cleared, filled, pressed Enter and paused
\* after a resolution that needed a retry
C22_Witness ==
  /\ verb.name = "type_text" /\ vpc = "returned" /\ vslept
  /\ vdone = <<"clear", "fill", "press">>
  /\ attempts > 1 /\ outcome.kind = "returned"

\* C23: when the driver raises a fault (the page is closed or crashed)
\* under a driver action of a verb or of wait_for_text, the call raises
\* that fault: not a TimeoutError, not an ElementNotFoundError, and it does
\* not go on.
C23_FaultPropagates ==
  vfault.kind = "PageClosed" => (vpc = "raised" /\ verr = vfault)

\* position of a label among the pairs
PairOf(l) == CHOOSE i \in 1..Len(field_values) : field_values[i].label = l

\* the queries of the loop over the pairs
PairFinds == SelectSeq(finds, LAMBDA l : l \in Labels(field_values))

\* C24: fill_form looks the labels up in the order of the pairs, and a
\* label that is not found is looked up max_retries times before
\* ElementNotFoundError leaves fill_form.
C24_LabelsRetried ==
  /\ \A i, j \in 1..Len(PairFinds) : i < j => PairOf(PairFinds[i]) <= PairOf(PairFinds[j])
  /\ (ppc = "raised" /\ ferr.kind = "NotFound") =>
       Len(SelectSeq(finds, LAMBDA l : l = field_values[ferr.at].label)) = max_retries

\* the driver actions completed on the element of label l
OpsOn(l) == SelectSeq(fops, LAMBDA a : a.label = l)

\* C25: once the handling of pair k raised, fill_form has ended with that
\* error; the pairs before k have all their driver actions applied, pair k
\* has at most a part of its own, no later pair was looked up or touched,
\* and no submit click and no key press was made.
C25_FailFast ==
  ferr.kind # "none" /\ ferr.at >= 1 =>
    /\ ppc = "raised"
    /\ PairFinds = [i \in 1..ferr.at |-> field_values[i].label]
    /\ finds = PairFinds
    /\ \A i \in 1..Len(field_values) :
         LET l    == field_values[i].label
             full == FieldActions(l, field_values[i].value, checked0, fcall.realistic) IN
         /\ i < ferr.at => OpsOn(l) = full
         /\ i = ferr.at =>
              /\ IsPrefix(OpsOn(l), full)
              /\ ferr.step = "find" => OpsOn(l) = << >>
              /\ ferr.step = "apply" => OpsOn(l) # full
         /\ i > ferr.at => OpsOn(l) = << >>
    /\ OpsOn(SubmitText) = << >>
    /\ presses = 0

\* C25's case: the second pair fails after the first was applied, with
\* submit requested
C25_Witness ==
  /\ ppc = "raised" /\ ferr.at = 2 /\ ferr.kind = "NotFound" /\ fcall.submit
  /\ OpsOn(field_values[1].label) # << >>

\* the handling of pair i has completed
PairDone(i) ==
  \/ i < fidx
  \/ i = fidx /\ ppc \notin {"find", "apply"} /\ ~(ppc = "raised" /\ ferr.at = i)

\* C26: when the handling of a checkbox pair has completed, the checkbox
\* was clicked once if its checked state differed from (lower(value) in
\* {"true", "yes", "1", "on"}) and not at all otherwise, and its checked
\* state is that parsed value.
C26_CheckboxClicks ==
  \A i \in 1..Len(field_values) :
    (field_values[i].label = "Agree" /\ PairDone(i)) =>
      LET parsed == Lower(field_values[i].value) \in
                      {<<"t", "r", "u", "e">>, <<"y", "e", "s">>, <<"1">>, <<"o", "n">>} IN
      /\ Len(OpsOn("Agree")) = (IF checked0 # parsed THEN 1 ELSE 0)
      /\ \A k \in 1..Len(OpsOn("Agree")) : OpsOn("Agree")[k].op = "click"
      /\ checked = parsed

\* C26's case: an unchecked checkbox given "YES" was clicked once
C26_Witness ==
  /\ ~checked0 /\ checked /\ Len(OpsOn("Agree")) = 1
  /\ \E i \in 1..Len(field_values) :
       field_values[i].label = "Agree" /\ field_values[i].value = <<"Y", "E", "S">> /\ PairDone(i)

Entries(sec) == SelectSeq(lines, LAMBDA ln : ln.sec = sec)

\* C28: in the summary page_summary returns, every role has at most
\* max_items entries, the forms section lists at most max_items forms, each
\* with at most max_items fields, and the navigation line joins at most
\* max_items links.
C28_CategoryCap ==
  spc = "returned" =>
    /\ \A i \in 1..Len(SummaryRoles) : Len(Entries(SummaryRoles[i])) <= max_items
    /\ Len(Entries("form")) <= max_items
    /\ Len(Entries("field")) <= Len(Entries("form")) * max_items
    /\ Len(nav_links) <= max_items

\* "\n".join(lines) and then the number of lines of the string
RECURSIVE TextLines(_)
TextLines(ls) == IF ls = << >> THEN 0 ELSE 1 + Head(ls).nl + TextLines(Tail(ls))

\* C29: the summary has at most 8 * max_items lines of elements, 3 * 10
\* lines of fields, one navigation line, 8 lines of content, and the fixed
\* lines (3 of the header, 3 section titles, 2 per form, 3 empty ones).
C29_LinesBounded ==
  spc = "returned" =>
    TextLines(lines) <= 8 * max_items + 3 * 10 + 1 + 8 + (3 + 3 + 3 * 2 + 3)

\* positions of the links of the page's own origin with a text shorter than
\* 30 characters
OwnShort ==
  SelectSeq([i \in 1..Len(spage.links) |-> i],
            LAMBDA i : UrlOrigin(spage.links[i].href) = CurrentOrigin /\ spage.links[i].len < 30)

\* C30: the navigation line joins the first min(max_items, k) of the k
\* same-origin links with a text shorter than 30 characters, in the order
\* get_links returned them.
C30_NavFirstK ==
  spc = "returned" =>
    /\ nav_links = SubSeq(OwnShort, 1, Min(max_items, Len(OwnShort)))
    /\ Len(Entries("NAVIGATION")) = (IF nav_links = << >> THEN 0 ELSE 1)

\* the lines of the text that are not blank
NonBlank(text) == SelectSeq(text, LAMBDA nonblank : nonblank)

\* C31: the content preview shows the first 8 non-blank lines of the text:
\* of a text with m non-blank lines, min(m, 8) lines are shown, wherever the
\* blank lines are.
C31_EightNonBlank ==
  spc = "returned" =>
    Len(Entries("content")) = Min(Len(NonBlank(spage.content)), 8)

\* the entries of the visible-elements section
ElementEntries ==
  SelectSeq(lines, LAMBDA ln : \E i \in 1..Len(SummaryRoles) : ln.sec = SummaryRoles[i])

\* C32: every entry of the visible-elements section, of textbox and
\* combobox too, is of an element that is visible and has a name.
C32_NamedAndVisible ==
  \A i \in 1..Len(ElementEntries) :
    ElementEntries[i].visible /\ ElementEntries[i].named

\* C33: an entry of a textbox or combobox with a non-empty value shows the
\* value, an entry of a checkbox or radio shows checked or unchecked as the
\* element is, and the entry of a selected tab shows it as active.
C33_StateShown ==
  \A i \in 1..Len(ElementEntries) :
    LET ln == ElementEntries[i] IN
    /\ ln.state # "" => ln.state \in ln.shows
    /\ ln.shows \subseteq {ln.state}

\* the section a line belongs to: identity, visible elements, forms,
\* navigation, content (0 for an empty line)
SectionOf(ln) ==
  CASE ln.sec \in {"URL", "Title"}                                   -> 1
    [] ln.sec = "VISIBLE ELEMENTS:"                                  -> 2
    [] \E i \in 1..Len(SummaryRoles) : ln.sec = SummaryRoles[i]      -> 2
    [] ln.sec \in {"FORMS:", "FORMS: None visible", "form", "field", "submit"} -> 3
    [] ln.sec = "NAVIGATION"                                         -> 4
    [] ln.sec \in {"PAGE CONTENT (preview):", "content"}             -> 5
    [] OTHER                                                         -> 0

PageDependent ==
  {"get_title", "goto", "back", "forward", "refresh", "click", "type", "hover", "select",
   "scroll_down", "scroll_up", "scroll_to", "wait_for", "get_text", "get_links",
   "get_tables", "get_meta", "page_summary", "screenshot", "fill_form", "detect_forms",
   "save_profile", "load_profile", "press", "evaluate", "page", "url"}

\* C35: a page-dependent operation called on an agent that is not started
\* (before start() or after close()) raises BrowserNotStartedError without
\* entering its body (no driver call) and without appending to the
\* recording buffer, and so does replay; an operation called on a started
\* agent never raises BrowserNotStartedError.
C35_NotStartedRejected ==
  /\ lastop.action \in PageDependent /\ ~lastop.started =>
        /\ lastop.raised = "BrowserNotStartedError"
        /\ ~lastop.entered
        /\ lastop.appended = 0
  /\ lastop.started => lastop.raised # "BrowserNotStartedError"
  /\ routcome.err = "BrowserNotStartedError" => ~started /\ rstack = << >> /\ calls = << >>

\* C35's case: a recording verb called after close(), while recording
C35_Witness ==
  /\ closed /\ recording
  /\ lastop.action \in RecordingVerbs
  /\ lastop.raised = "BrowserNotStartedError"
  /\ actions = << >>


\* C38: while recording, a call of a verb that fails (the element is not
\* found, the navigation fails, the driver fails, the wait times out) has
\* appended exactly one entry, the entry of that call, before it failed; a
\* call rejected with BrowserNotStartedError appended nothing.
C38_RecordedBeforeWork ==
  /\ lastop.recording /\ lastop.action \in SupportedVerbs
       /\ lastop.raised \notin {"", "BrowserNotStartedError"} =>
        lastop.appended = 1
  /\ lastop.raised = "BrowserNotStartedError" => lastop.appended = 0


\* C40: a replay of a stored recording calls at most one method per stored
\* entry, whatever the entries name (replay and the lifecycle methods
\* included), and so comes to an end.
C40_OneCallPerEntry == Len(calls) <= Len(stored)


\* the calls of replay, in order, that are calls of verbs that record
Replayed == SelectSeq(calls, LAMBDA c : c.action \in RecordingVerbs)

\* C39: while a recording session is active, a replay of a stored sequence
\* of verbs that record themselves appends one entry per verb it calls, in
\* the order of the calls, and nothing else: the buffer is what it was when
\* replay was called followed by the entries of the calls made so far, and
\* when replay returns these are the k stored entries.
C39_ReplayAppends ==
  (recording /\ \A i \in 1..Len(stored) : stored[i].action \in RecordingVerbs) =>
    /\ Len(actions) = Len(Base) + Len(Replayed)
    /\ SubSeq(actions, 1, Len(Base)) = Base
    /\ \A i \in 1..Len(Replayed) :
         /\ actions[Len(Base) + i].action = Replayed[i].action
         /\ actions[Len(Base) + i].args = Replayed[i].kwargs
    /\ routcome.kind = "returned" =>
         /\ Len(Replayed) = Len(stored)
         /\ \A i \in 1..Len(stored) : Replayed[i].action = stored[i].action

\* C39's case: a replay of three verbs returned while recording
C39_Witness ==
  /\ recording /\ routcome.kind = "returned"
  /\ Len(stored) = MaxSeqLen /\ \A i \in 1..Len(stored) : stored[i].action \in RecordingVerbs
  /\ stored[1].action # stored[2].action
  /\ Len(actions) = Len(Base) + MaxSeqLen


\* the kinds of strategy, and the roles, this call of find_element asked
AskedKinds == {Kind(queried[i]) : i \in 1..Len(queried)}

AskedRoles == {RoleOf(queried[i]) : i \in 1..Len(queried)} \ {"none"}

\* C37: for a selector-like query whose selector strategy counted zero
\* matches, find_element goes on with the later strategies in their order
\* on the same query, returns the match of the first of them that has one,
\* and raises ElementNotFoundError only after the role, label, placeholder,
\* text and attribute strategies were all asked as well.
C37_SelectorFallsThrough ==
  (_looks_like_selector(query) /\ Len(queried) >= 1) =>
    /\ \A i \in 1..Len(queried) : queried[i] = i
    /\ fpc = "raised" /\ err.kind = "NotFound" =>
         /\ err.query = query
         /\ AskedKinds = {"selector", "role", "label", "placeholder", "text", "attr"}
         /\ AskedRoles = {RoleOrder[i] : i \in 1..Len(RoleOrder)}
    /\ fpc = "returned" => result.locator = queried[Len(queried)]

\* C37's case: the selector of a selector-like query matched nothing and a
\* later strategy found the element
C37_Witness ==
  /\ _looks_like_selector(query)
  /\ fpc = "returned"
  /\ Len(queried) >= 2 /\ queried[1] = 1
  /\ Kind(result.locator) # "selector"


\* is element e the one the descriptor el describes: the tag is its tag,
\* and the text, where the branch reads one, is its text
Describes(el, e) ==
  /\ el.tag = TagOr(Catalog[e].tag, el.locator)
  /\ ReadsText(el.locator, el.tag) => el.text = DisplayText(e)

\* C36: with the page changing at the suspension points, every driver
\* action of a verb acts on the element that the tag and the text of the
\* descriptor the verb returns describe.
C36_ActsOnDescribed ==
  (verb.name \in ResolvingVerbs /\ outcome.kind = "returned") =>
    \A i \in 1..Len(vacted) : Describes(outcome.el, vacted[i])

====
